---- MODULE Spec2Model ----
(***************************************************************************)
(* ADZDB: an append-only, content-addressable store (src/src/lib.rs).      *)
(* The model keeps the four files as byte sequences, the record codecs as  *)
(* byte-level encoders/decoders, and one action per public operation of    *)
(* Database.                                                               *)
(***************************************************************************)
EXTENDS Integers, Sequences, FiniteSets, TLC

(* ------------------------------------------------------------------ *)
(* Program constants                                                  *)
(* ------------------------------------------------------------------ *)

\* b"ADZB"
MAGIC == <<65, 68, 90, 66>>

VERSION == 1

MAX_REASONABLE_HEIGHT == 10000000

\* pub type Hash = [u8; 32]
HASH_LEN == 32

ZERO_HASH == [i \in 1..HASH_LEN |-> 0]

INDEX_ENTRY_SIZE == 56

HEIGHT_ENTRY_SIZE == 40

METADATA_SIZE == 96

\* the four fixed file names under the base directory
IDX == "adzdb.idx"

DAT == "adzdb.dat"

HGT == "adzdb.hgt"

META == "adzdb.meta"

FileNames == {IDX, DAT, HGT, META}

(* ------------------------------------------------------------------ *)
(* Bounds and input sets of the model                                 *)
(* ------------------------------------------------------------------ *)

\* at most this many records are ever appended to the hash-index log
MaxEntries == 2

\* [b; 32] for a byte b, as the tests and examples build their hashes
RepeatHash(b) == [i \in 1..HASH_LEN |-> b]

Hashes == {ZERO_HASH, RepeatHash(1), RepeatHash(2)}

Heights == {0, MAX_REASONABLE_HEIGHT, MAX_REASONABLE_HEIGHT + 1}

Payloads == {<<65>>, <<66, 67>>}

(* ------------------------------------------------------------------ *)
(* Byte helpers                                                       *)
(* ------------------------------------------------------------------ *)

\* u64::to_le_bytes / u32::to_le_bytes: the n low-order bytes, lowest first
RECURSIVE to_le_bytes(_, _)
to_le_bytes(v, n) ==
    IF n = 0 THEN <<>> ELSE <<v % 256>> \o to_le_bytes(v \div 256, n - 1)

\* from_le_bytes reading the highest byte first
RECURSIVE from_be_bytes(_)
from_be_bytes(b) ==
    IF b = <<>> THEN 0 ELSE b[Len(b)] + 256 * from_be_bytes(SubSeq(b, 1, Len(b) - 1))

\* u64::from_le_bytes / u32::from_le_bytes
RECURSIVE from_le_bytes(_)
from_le_bytes(b) ==
    IF b = <<>> THEN 0 ELSE b[1] + 256 * from_le_bytes(Tail(b))

\* bytes[lo..hi] of Rust (0-based, hi exclusive)
Slice(bytes, lo, hi) == SubSeq(bytes, lo + 1, hi)

\* seek(SeekFrom::Start(pos)) followed by write_all(bytes): overwrites in
\* place and extends the file when the write runs past its end
WriteAt(content, pos, bytes) ==
    LET end == pos + Len(bytes)
        newLen == IF end > Len(content) THEN end ELSE Len(content)
    IN [i \in 1..newLen |->
            IF i > pos /\ i <= end THEN bytes[i - pos] ELSE content[i]]

\* HashMap::new()
EmptyMap == [k \in {} |-> 0]

\* MapInsert keeping the value a key already has
MapInsert_keep_first(m, k, v) ==
    [x \in (DOMAIN m) \cup {k} |-> IF x \in DOMAIN m THEN m[x] ELSE v]

\* HashMap::insert: a later value for a key replaces the earlier one
MapInsert(m, k, v) == [x \in (DOMAIN m) \cup {k} |-> IF x = k THEN v ELSE m[x]]

(* ------------------------------------------------------------------ *)
(* Record codec                                                       *)
(* ------------------------------------------------------------------ *)

IndexEntry_to_bytes(e) ==
    e.key \o to_le_bytes(e.offset, 8) \o to_le_bytes(e.size, 4)
          \o to_le_bytes(e.height, 8) \o to_le_bytes(e.flags, 4)

IndexEntry_from_bytes(bytes) ==
    [key    |-> Slice(bytes, 0, 32),
     offset |-> from_le_bytes(Slice(bytes, 32, 40)),
     size   |-> from_le_bytes(Slice(bytes, 40, 44)),
     height |-> from_le_bytes(Slice(bytes, 44, 52)),
     flags  |-> from_le_bytes(Slice(bytes, 52, 56))]

HeightEntry_to_bytes(e) == to_le_bytes(e.height, 8) \o e.hash

HeightEntry_from_bytes(bytes) ==
    [height |-> from_le_bytes(Slice(bytes, 0, 8)),
     hash   |-> Slice(bytes, 8, 40)]

Metadata_default ==
    [magic         |-> MAGIC,
     version       |-> VERSION,
     entry_count   |-> 0,
     data_size     |-> 0,
     latest_height |-> 0,
     latest_hash   |-> ZERO_HASH,
     genesis_hash  |-> ZERO_HASH]

Metadata_to_bytes(m) ==
    m.magic \o to_le_bytes(m.version, 4) \o to_le_bytes(m.entry_count, 8)
            \o to_le_bytes(m.data_size, 8) \o to_le_bytes(m.latest_height, 8)
            \o m.latest_hash \o m.genesis_hash

\* Metadata_from_bytes validating the height before the magic
Metadata_from_bytes_height_first(bytes) ==
    LET magic == Slice(bytes, 0, 4)
        meta == [magic         |-> magic,
                 version       |-> from_le_bytes(Slice(bytes, 4, 8)),
                 entry_count   |-> from_le_bytes(Slice(bytes, 8, 16)),
                 data_size     |-> from_le_bytes(Slice(bytes, 16, 24)),
                 latest_height |-> from_le_bytes(Slice(bytes, 24, 32)),
                 latest_hash   |-> Slice(bytes, 32, 64),
                 genesis_hash  |-> Slice(bytes, 64, 96)]
    IN IF meta.latest_height > MAX_REASONABLE_HEIGHT
         THEN [err |-> "HeightTooLarge", meta |-> Metadata_default]
         ELSE IF magic # MAGIC
                THEN [err |-> "Corruption", meta |-> Metadata_default]
                ELSE [err |-> "Ok", meta |-> meta]

\* Result<Metadata>: err is "Ok", "Corruption" or "HeightTooLarge"
Metadata_from_bytes(bytes) ==
    LET magic == Slice(bytes, 0, 4)
        meta == [magic         |-> magic,
                 version       |-> from_le_bytes(Slice(bytes, 4, 8)),
                 entry_count   |-> from_le_bytes(Slice(bytes, 8, 16)),
                 data_size     |-> from_le_bytes(Slice(bytes, 16, 24)),
                 latest_height |-> from_le_bytes(Slice(bytes, 24, 32)),
                 latest_hash   |-> Slice(bytes, 32, 64),
                 genesis_hash  |-> Slice(bytes, 64, 96)]
    IN IF magic # MAGIC
         THEN [err |-> "Corruption", meta |-> Metadata_default]
         ELSE IF meta.latest_height > MAX_REASONABLE_HEIGHT
                THEN [err |-> "HeightTooLarge", meta |-> Metadata_default]
                ELSE [err |-> "Ok", meta |-> meta]

(* ------------------------------------------------------------------ *)
(* State                                                              *)
(* ------------------------------------------------------------------ *)

VARIABLES
    fs,            \* the base directory: file name -> content, for the files that exist
    unsynced,      \* the files holding writes that no sync_all has forced to storage yet
    db_open,       \* whether a Database instance is alive
    config,        \* the instance's Config: [sync_on_write]
    hash_index,    \* Database.hash_index: Hash -> IndexEntry
    height_index,  \* Database.height_index: u64 -> Hash
    metadata,      \* Database.metadata
    call,          \* the last public call: its name and, for put, the hash and height passed
    ret,           \* what that call returned: "Ok" or the Error variant
    history,       \* every put that stored a record, in order: [hash, height, data]
    session_from   \* Len(history) when the live instance was built

vars == <<fs, unsynced, db_open, config, hash_index, height_index, metadata,
          call, ret, history, session_from>>

\* the instance's fields once it is dropped (or before one is built)
NoConfig == [sync_on_write |-> TRUE]

NoArgs == [name |-> "none", hash |-> ZERO_HASH, height |-> 0]

Call(name) == [NoArgs EXCEPT !.name = name]

\* an empty base directory and no instance
Init ==
    /\ fs = EmptyMap
    /\ unsynced = {}
    /\ db_open = FALSE
    /\ config = NoConfig
    /\ hash_index = EmptyMap
    /\ height_index = EmptyMap
    /\ metadata = Metadata_default
    /\ call = NoArgs
    /\ ret = "Ok"
    /\ history = <<>>
    /\ session_from = 0

(* ------------------------------------------------------------------ *)
(* Recovery: rebuilding the in-memory maps from the logs              *)
(* ------------------------------------------------------------------ *)

\* Database::load_metadata over the content of the metadata file
load_metadata(bytes) ==
    IF Len(bytes) < METADATA_SIZE
      THEN [err |-> "Corruption", meta |-> Metadata_default]
      ELSE Metadata_from_bytes(Slice(bytes, 0, METADATA_SIZE))

\* load_hash_index_loop keeping the first record of a key
RECURSIVE load_hash_index_loop_first_wins(_, _)
load_hash_index_loop_first_wins(bytes, index) ==
    IF Len(bytes) < INDEX_ENTRY_SIZE
      THEN index
      ELSE LET entry == IndexEntry_from_bytes(Slice(bytes, 0, INDEX_ENTRY_SIZE))
               rest == Slice(bytes, INDEX_ENTRY_SIZE, Len(bytes))
           IN load_hash_index_loop_first_wins(rest,
                  IF entry.key # ZERO_HASH /\ entry.key \notin DOMAIN index
                    THEN MapInsert(index, entry.key, entry)
                    ELSE index)

\* the loop of load_hash_index: read_exact of one 56-byte chunk at a time,
\* UnexpectedEof (fewer than 56 bytes left) ends the loop
RECURSIVE load_hash_index_loop(_, _)
load_hash_index_loop(bytes, index) ==
    IF Len(bytes) < INDEX_ENTRY_SIZE
      THEN index
      ELSE LET entry == IndexEntry_from_bytes(Slice(bytes, 0, INDEX_ENTRY_SIZE))
               rest == Slice(bytes, INDEX_ENTRY_SIZE, Len(bytes))
           IN load_hash_index_loop(rest,
                  IF entry.key # ZERO_HASH
                    THEN MapInsert(index, entry.key, entry)
                    ELSE index)

load_hash_index(bytes) == load_hash_index_loop(bytes, EmptyMap)

RECURSIVE load_height_index_loop(_, _)
load_height_index_loop(bytes, index) ==
    IF Len(bytes) < HEIGHT_ENTRY_SIZE
      THEN index
      ELSE LET entry == HeightEntry_from_bytes(Slice(bytes, 0, HEIGHT_ENTRY_SIZE))
               rest == Slice(bytes, HEIGHT_ENTRY_SIZE, Len(bytes))
           IN load_height_index_loop(rest,
                  IF entry.hash # ZERO_HASH
                    THEN MapInsert(index, entry.height, entry.hash)
                    ELSE index)

load_height_index(bytes) == load_height_index_loop(bytes, EmptyMap)

(* ------------------------------------------------------------------ *)
(* Read path (pure functions of the instance and the data log)        *)
(* ------------------------------------------------------------------ *)

NotFound == [err |-> "NotFound", data |-> <<>>]

\* Database::get against the maps and files given
get_in(files, hindex, hash) ==
    IF hash \notin DOMAIN hindex
      THEN NotFound
      ELSE LET entry == hindex[hash]
           IN IF entry.offset + entry.size > Len(files[DAT])
                THEN [err |-> "Io", data |-> <<>>]
                ELSE [err |-> "Ok",
                      data |-> Slice(files[DAT], entry.offset, entry.offset + entry.size)]

get(hash) == get_in(fs, hash_index, hash)

\* get_hash_by_height_in answering an absent height with the default hash
get_hash_by_height_in_or_default(gindex, height) ==
    IF height \notin DOMAIN gindex
      THEN [err |-> "Ok", hash |-> ZERO_HASH]
      ELSE [err |-> "Ok", hash |-> gindex[height]]

get_hash_by_height_in(gindex, height) ==
    IF height \notin DOMAIN gindex
      THEN [err |-> "NotFound", hash |-> ZERO_HASH]
      ELSE [err |-> "Ok", hash |-> gindex[height]]

get_hash_by_height(height) == get_hash_by_height_in(height_index, height)

get_by_height_in(files, hindex, gindex, height) ==
    IF height \notin DOMAIN gindex
      THEN NotFound
      ELSE get_in(files, hindex, gindex[height])

get_by_height(height) == get_by_height_in(fs, hash_index, height_index, height)

contains(hash) == hash \in DOMAIN hash_index

contains_height(height) == height \in DOMAIN height_index

latest_height == metadata.latest_height

latest_hash == metadata.latest_hash

genesis_hash == metadata.genesis_hash

entry_count == metadata.entry_count

(* ------------------------------------------------------------------ *)
(* Lifecycle: create, open, open_or_create, drop                      *)
(* ------------------------------------------------------------------ *)

\* the effect of a constructor that returns Err: no instance, nothing else touched
NoInstance(err) ==
    /\ ret' = err
    /\ UNCHANGED <<fs, unsynced, db_open, config, hash_index, height_index, metadata,
                   session_from>>

\* Database::create. OpenOptions::create(true) without truncate(true) keeps
\* the content of a file that is already there; the metadata record is
\* written at the fresh handle's position 0.
create_body(cfg) ==
    IF IDX \in DOMAIN fs \/ DAT \in DOMAIN fs
      THEN NoInstance("AlreadyExists")
      ELSE LET opened == [f \in FileNames |-> IF f \in DOMAIN fs THEN fs[f] ELSE <<>>]
               written == [opened EXCEPT
                              ![META] = WriteAt(@, 0, Metadata_to_bytes(Metadata_default))]
           IN /\ fs' = written
              /\ unsynced' = unsynced \ {META}
              /\ db_open' = TRUE
              /\ config' = cfg
              /\ hash_index' = EmptyMap
              /\ height_index' = EmptyMap
              /\ metadata' = Metadata_default
              /\ session_from' = Len(history)
              /\ ret' = "Ok"

\* recover setting entry_count to the number of keys it rebuilt
recover_recounted(files) ==
    LET loaded == load_metadata(files[META])
        index == load_hash_index(files[IDX])
    IN [metadata     |-> [loaded EXCEPT !.meta.entry_count = Cardinality(DOMAIN index)],
        hash_index   |-> index,
        height_index |-> load_height_index(files[HGT])]

\* what Database::open loads from the files given (all four exist)
recover(files) ==
    [metadata     |-> load_metadata(files[META]),
     hash_index   |-> load_hash_index(files[IDX]),
     height_index |-> load_height_index(files[HGT])]

\* Database::open
open_body(cfg) ==
    IF DOMAIN fs # FileNames
      THEN NoInstance("Io")
      ELSE LET loaded == recover(fs)
           IN IF loaded.metadata.err # "Ok"
                THEN NoInstance(loaded.metadata.err)
                ELSE /\ db_open' = TRUE
                     /\ config' = cfg
                     /\ metadata' = loaded.metadata.meta
                     /\ hash_index' = loaded.hash_index
                     /\ height_index' = loaded.height_index
                     /\ session_from' = Len(history)
                     /\ ret' = "Ok"
                     /\ UNCHANGED <<fs, unsynced>>

\* Config::default() and Config::new(path): sync_on_write is true
Config_default == [sync_on_write |-> TRUE]

\* Config::with_sync_on_write
with_sync_on_write(cfg, flag) == [cfg EXCEPT !.sync_on_write = flag]

Configs == [sync_on_write : BOOLEAN]

create ==
    /\ ~db_open
    /\ \E cfg \in Configs : create_body(cfg)
    /\ call' = Call("create")
    /\ UNCHANGED history

open ==
    /\ ~db_open
    /\ \E cfg \in Configs : open_body(cfg)
    /\ call' = Call("open")
    /\ UNCHANGED history

\* open_or_create dispatching on the hash-index log instead of the metadata file
open_or_create_by_index ==
    /\ ~db_open
    /\ \E cfg \in Configs :
          IF IDX \in DOMAIN fs THEN open_body(cfg) ELSE create_body(cfg)
    /\ call' = Call("open_or_create")
    /\ UNCHANGED history

open_or_create ==
    /\ ~db_open
    /\ \E cfg \in Configs :
          IF META \in DOMAIN fs THEN open_body(cfg) ELSE create_body(cfg)
    /\ call' = Call("open_or_create")
    /\ UNCHANGED history

\* the instance goes out of scope: the handles are closed without a flush,
\* what was written stays in the files
drop ==
    /\ db_open
    /\ db_open' = FALSE
    /\ config' = NoConfig
    /\ hash_index' = EmptyMap
    /\ height_index' = EmptyMap
    /\ metadata' = Metadata_default
    /\ call' = Call("drop")
    /\ ret' = "Ok"
    /\ UNCHANGED <<fs, unsynced, history, session_from>>

(* ------------------------------------------------------------------ *)
(* Write path and sync                                                *)
(* ------------------------------------------------------------------ *)

\* sync_files adding the record at the end of the metadata file
sync_files_appended(files, meta) ==
    [files EXCEPT ![META] = @ \o Metadata_to_bytes(meta)]

\* sync_files leaving the metadata file as it is
sync_files_skipped(files, meta) == files

\* Database::sync on the files and aggregate given: the metadata record is
\* rewritten at offset 0, then all four files are forced to storage
sync_files(files, meta) ==
    [files EXCEPT ![META] = WriteAt(@, 0, Metadata_to_bytes(meta))]

sync ==
    /\ db_open
    /\ fs' = sync_files(fs, metadata)
    /\ unsynced' = {}
    /\ call' = Call("sync")
    /\ ret' = "Ok"
    /\ UNCHANGED <<db_open, config, hash_index, height_index, metadata,
                   history, session_from>>

\* put_entry with the seek to the end of the data log forgotten
put_entry_offset_zero(hash, height, data, offset) ==
    [key |-> hash, offset |-> 0, size |-> Len(data), height |-> height, flags |-> 0]

\* `as u32` applied to a usize given by its 8 little-endian bytes: the low
\* 32 bits are kept
as_u32(len_bytes) == SubSeq(len_bytes, 1, 4)

\* `as usize` applied to a u32 given by its 4 little-endian bytes
as_usize(size_bytes) == size_bytes \o <<0, 0, 0, 0>>

\* the IndexEntry put builds for a new hash and a payload of the length
\* given by its 8 little-endian bytes: size is data.len() as u32
put_entry_len(hash, height, len_bytes, offset) ==
    [key |-> hash, offset |-> offset, size |-> from_le_bytes(as_u32(len_bytes)),
     height |-> height, flags |-> 0]

\* the IndexEntry put builds for a new hash
put_entry(hash, height, data, offset) ==
    put_entry_len(hash, height, to_le_bytes(Len(data), 8), offset)

\* put_metadata that assigns the genesis hash only while it is still unset
put_metadata_genesis_once(meta, hash, height, data) ==
    LET counted == [meta EXCEPT !.entry_count = @ + 1,
                                !.data_size = @ + Len(data)]
        latest == IF height > counted.latest_height
                    THEN [counted EXCEPT !.latest_height = height,
                                         !.latest_hash = hash]
                    ELSE counted
    IN IF height = 0 /\ meta.genesis_hash = ZERO_HASH
         THEN [latest EXCEPT !.genesis_hash = hash]
         ELSE latest

\* put_metadata taking every stored height as the latest
put_metadata_latest_always(meta, hash, height, data) ==
    LET counted == [meta EXCEPT !.entry_count = @ + 1,
                                !.data_size = @ + Len(data)]
        latest == [counted EXCEPT !.latest_height = height,
                                  !.latest_hash = hash]
    IN IF height = 0 THEN [latest EXCEPT !.genesis_hash = hash] ELSE latest

\* put_metadata comparing the height with >= instead of >
put_metadata_latest_ge(meta, hash, height, data) ==
    LET counted == [meta EXCEPT !.entry_count = @ + 1,
                                !.data_size = @ + Len(data)]
        latest == IF height >= counted.latest_height
                    THEN [counted EXCEPT !.latest_height = height,
                                         !.latest_hash = hash]
                    ELSE counted
    IN IF height = 0 THEN [latest EXCEPT !.genesis_hash = hash] ELSE latest

\* the metadata update of put
put_metadata(meta, hash, height, data) ==
    LET counted == [meta EXCEPT !.entry_count = @ + 1,
                                !.data_size = @ + Len(data)]
        latest == IF height > counted.latest_height
                    THEN [counted EXCEPT !.latest_height = height,
                                         !.latest_hash = hash]
                    ELSE counted
    IN IF height = 0 THEN [latest EXCEPT !.genesis_hash = hash] ELSE latest

\* put_files writing the payload at the start of the data log
put_files_data_in_place(files, hash, height, data) ==
    LET offset == Len(files[DAT])
        entry == put_entry(hash, height, data, offset)
    IN [files EXCEPT ![DAT] = WriteAt(@, 0, data),
                     ![IDX] = @ \o IndexEntry_to_bytes(entry),
                     ![HGT] = @ \o HeightEntry_to_bytes([height |-> height, hash |-> hash])]

\* put_files writing the index record at the start of the hash-index log
put_files_index_in_place(files, hash, height, data) ==
    LET offset == Len(files[DAT])
        entry == put_entry(hash, height, data, offset)
    IN [files EXCEPT ![DAT] = @ \o data,
                     ![IDX] = WriteAt(@, 0, IndexEntry_to_bytes(entry)),
                     ![HGT] = @ \o HeightEntry_to_bytes([height |-> height, hash |-> hash])]

\* the three appends of put
put_files(files, hash, height, data) ==
    LET offset == Len(files[DAT])
        entry == put_entry(hash, height, data, offset)
    IN [files EXCEPT ![DAT] = @ \o data,
                     ![IDX] = @ \o IndexEntry_to_bytes(entry),
                     ![HGT] = @ \o HeightEntry_to_bytes([height |-> height, hash |-> hash])]

\* put_outcome without the deduplication check
put_outcome_no_dedup(hindex, hash, height) ==
    IF height > MAX_REASONABLE_HEIGHT THEN "HeightTooLarge" ELSE "store"

\* put_outcome deduplicating only a hash stored at the same height
put_outcome_dedup_same_height(hindex, hash, height) ==
    IF height > MAX_REASONABLE_HEIGHT THEN "HeightTooLarge"
    ELSE IF hash \in DOMAIN hindex /\ hindex[hash].height = height THEN "duplicate"
    ELSE "store"

\* put_outcome with the two guards swapped
put_outcome_dedup_first(hindex, hash, height) ==
    IF hash \in DOMAIN hindex THEN "duplicate"
    ELSE IF height > MAX_REASONABLE_HEIGHT THEN "HeightTooLarge"
    ELSE "store"

\* the two guards of put, in the order the code makes them: the height
\* check, then the deduplication check
put_outcome(hindex, hash, height) ==
    IF height > MAX_REASONABLE_HEIGHT THEN "HeightTooLarge"
    ELSE IF hash \in DOMAIN hindex THEN "duplicate"
    ELSE "store"

\* Database::put
put(hash, height, data) ==
    /\ db_open
    /\ call' = [name |-> "put", hash |-> hash, height |-> height]
    /\ IF put_outcome(hash_index, hash, height) = "HeightTooLarge"
         THEN /\ ret' = "HeightTooLarge"
              /\ UNCHANGED <<fs, unsynced, db_open, config, hash_index, height_index,
                             metadata, history, session_from>>
         ELSE IF put_outcome(hash_index, hash, height) = "duplicate"
           THEN /\ ret' = "Ok"
                /\ UNCHANGED <<fs, unsynced, db_open, config, hash_index, height_index,
                             metadata, history, session_from>>
           ELSE /\ Len(fs[IDX]) < MaxEntries * INDEX_ENTRY_SIZE
                /\ LET appended == put_files(fs, hash, height, data)
                       entry == put_entry(hash, height, data, Len(fs[DAT]))
                       meta == put_metadata(metadata, hash, height, data)
                   IN /\ hash_index' = MapInsert(hash_index, hash, entry)
                      /\ height_index' = MapInsert(height_index, height, hash)
                      /\ metadata' = meta
                      /\ IF config.sync_on_write
                           THEN /\ fs' = sync_files(appended, meta)
                                /\ unsynced' = {}
                           ELSE /\ fs' = appended
                                /\ unsynced' = unsynced \cup {DAT, IDX, HGT}
                      /\ history' = Append(history,
                             [hash |-> hash, height |-> height, data |-> data])
                      /\ ret' = "Ok"
                      /\ UNCHANGED <<db_open, config, session_from>>

Next ==
    \/ create
    \/ open
    \/ open_or_create
    \/ drop
    \/ sync
    \/ \E hash \in Hashes, height \in Heights, data \in Payloads : put(hash, height, data)

Spec == Init /\ [][Next]_vars

\* what a file of the directory may hold before this program touches it: a
\* height-index log left over from a removed database, the others empty
LeftOver(f) ==
    IF f = HGT
      THEN HeightEntry_to_bytes([height |-> 0, hash |-> RepeatHash(1)])
      ELSE <<>>

\* the base directory is an argument of create/open/open_or_create: it may
\* already hold any of the four files
InitDir ==
    /\ fs \in {[f \in S |-> LeftOver(f)] : S \in SUBSET FileNames}
    /\ unsynced = {}
    /\ db_open = FALSE
    /\ config = NoConfig
    /\ hash_index = EmptyMap
    /\ height_index = EmptyMap
    /\ metadata = Metadata_default
    /\ call = NoArgs
    /\ ret = "Ok"
    /\ history = <<>>
    /\ session_from = 0

SpecDir == InitDir /\ [][Next]_vars

\* a magic other than the compiled-in one
OtherMagic == <<65, 68, 90, 67>>

\* the record a metadata file may hold when open reads it
StoredRecord(magic, height) ==
    Metadata_to_bytes([Metadata_default EXCEPT !.magic = magic,
                                               !.latest_height = height])

\* contents of the metadata file that open may meet: empty, one byte short
\* of a record, a valid record, and records with another magic, with a
\* height above the limit, and with both
MetaFiles ==
    {<<>>,
     Slice(StoredRecord(MAGIC, 0), 0, METADATA_SIZE - 1),
     StoredRecord(MAGIC, 0),
     StoredRecord(OtherMagic, 0),
     StoredRecord(MAGIC, MAX_REASONABLE_HEIGHT + 1),
     StoredRecord(OtherMagic, MAX_REASONABLE_HEIGHT + 1)}

\* the base directory handed to open: any subset of the four files, the
\* logs empty and the metadata file with any of the contents above
InitMeta ==
    /\ fs \in {[f \in S |-> IF f = META THEN m ELSE <<>>] :
                  S \in SUBSET FileNames, m \in MetaFiles}
    /\ unsynced = {}
    /\ db_open = FALSE
    /\ config = NoConfig
    /\ hash_index = EmptyMap
    /\ height_index = EmptyMap
    /\ metadata = Metadata_default
    /\ call = NoArgs
    /\ ret = "Ok"
    /\ history = <<>>
    /\ session_from = 0

SpecMeta == InitMeta /\ [][Next]_vars

(* ------------------------------------------------------------------ *)
(* open over logs of any content                                      *)
(* ------------------------------------------------------------------ *)

RECURSIVE Concat(_)
Concat(chunks) ==
    IF chunks = <<>> THEN <<>> ELSE Head(chunks) \o Concat(Tail(chunks))

\* index records a log may hold when open reads it: two with the same key,
\* one with the all-zero key, one with another key
IndexRecords ==
    {put_entry(RepeatHash(1), 0, <<65>>, 0),
     put_entry(RepeatHash(1), MAX_REASONABLE_HEIGHT, <<66, 67>>, 1),
     put_entry(ZERO_HASH, 0, <<65>>, 0),
     put_entry(RepeatHash(2), 0, <<65>>, 0)}

\* height records a log may hold: two for the same height, one with the
\* all-zero hash, one for another height
HeightRecords ==
    {[height |-> 0, hash |-> RepeatHash(1)],
     [height |-> 0, hash |-> RepeatHash(2)],
     [height |-> 0, hash |-> ZERO_HASH],
     [height |-> MAX_REASONABLE_HEIGHT, hash |-> RepeatHash(1)]}

\* a hash-index log: up to MaxEntries full records, then nothing or a
\* record cut one byte short
IndexLogs ==
    {Concat([i \in 1..Len(q) |-> IndexEntry_to_bytes(q[i])]) \o cut :
        q \in UNION {[1..k -> IndexRecords] : k \in 0..MaxEntries},
        cut \in {<<>>, Slice(IndexEntry_to_bytes(put_entry(RepeatHash(2), 0, <<65>>, 0)),
                             0, INDEX_ENTRY_SIZE - 1)}}

\* a height-index log, likewise
HeightLogs ==
    {Concat([i \in 1..Len(q) |-> HeightEntry_to_bytes(q[i])]) \o cut :
        q \in UNION {[1..k -> HeightRecords] : k \in 0..MaxEntries},
        cut \in {<<>>, Slice(HeightEntry_to_bytes([height |-> 0, hash |-> RepeatHash(2)]),
                             0, HEIGHT_ENTRY_SIZE - 1)}}

\* the base directory handed to open: the four files, the two index logs
\* with any of the contents above
InitReplay ==
    /\ \E ilog \in IndexLogs, hlog \in HeightLogs :
          fs = [f \in FileNames |->
                   IF f = IDX THEN ilog
                   ELSE IF f = HGT THEN hlog
                   ELSE IF f = META THEN Metadata_to_bytes(Metadata_default)
                   ELSE <<65, 66, 67>>]
    /\ unsynced = {}
    /\ db_open = FALSE
    /\ config = NoConfig
    /\ hash_index = EmptyMap
    /\ height_index = EmptyMap
    /\ metadata = Metadata_default
    /\ call = NoArgs
    /\ ret = "Ok"
    /\ history = <<>>
    /\ session_from = 0

NextReplay ==
    \/ create
    \/ open
    \/ open_or_create
    \/ drop

SpecReplay == InitReplay /\ [][NextReplay]_vars

\* open over logs of any content, followed by puts: the logs of InitReplay
\* include those a crash in the middle of a write leaves, ending in a record
\* cut short
NextTorn ==
    \/ open
    \/ \E hash \in Hashes, height \in Heights, data \in Payloads :
          put(hash, height, data)

SpecTorn == InitReplay /\ [][NextTorn]_vars

\* the aggregate of test_metadata_roundtrip, as a metadata file may hold it
\* whatever the logs hold
StoredAggregate ==
    Metadata_to_bytes([Metadata_default EXCEPT !.entry_count = 100,
                                               !.data_size = 50000,
                                               !.latest_height = 42,
                                               !.latest_hash = RepeatHash(1),
                                               !.genesis_hash = RepeatHash(2)])

\* the base directory handed to open after a crash: index logs of whole
\* records in any combination, a data log that holds the payloads or has lost
\* them, a metadata record that decodes and was written at another time
InitTrust ==
    /\ \E ilog \in {l \in IndexLogs : Len(l) % INDEX_ENTRY_SIZE = 0},
          hlog \in {l \in HeightLogs : Len(l) % HEIGHT_ENTRY_SIZE = 0},
          dlog \in {<<>>, <<65, 66, 67>>},
          mrec \in {Metadata_to_bytes(Metadata_default), StoredAggregate} :
          fs = [f \in FileNames |->
                   IF f = IDX THEN ilog
                   ELSE IF f = HGT THEN hlog
                   ELSE IF f = META THEN mrec
                   ELSE dlog]
    /\ unsynced = {}
    /\ db_open = FALSE
    /\ config = NoConfig
    /\ hash_index = EmptyMap
    /\ height_index = EmptyMap
    /\ metadata = Metadata_default
    /\ call = NoArgs
    /\ ret = "Ok"
    /\ history = <<>>
    /\ session_from = 0

SpecTrust == InitTrust /\ [][NextReplay]_vars

(* ------------------------------------------------------------------ *)
(* The read-only operations                                           *)
(* ------------------------------------------------------------------ *)

\* In SpecRead the read-only operations are calls of their own: call names
\* the operation and its argument, ret holds what it returned.

\* heights.sort() leaving the vector as collected
sort_skipped(v) == v

RECURSIVE sort_insert(_, _)
sort_insert(x, sorted) ==
    IF sorted = <<>> THEN <<x>>
    ELSE IF x <= Head(sorted) THEN <<x>> \o sorted
    ELSE <<Head(sorted)>> \o sort_insert(x, Tail(sorted))

RECURSIVE sort_from(_)
sort_from(v) ==
    IF v = <<>> THEN <<>> ELSE sort_insert(Head(v), sort_from(Tail(v)))

\* heights.sort()
sort(v) == sort_from(v)

\* the vectors height_index.keys().copied().collect() may build: a HashMap
\* yields each key once, in an order of its own
keys_collected(gindex) ==
    {v \in [1..Cardinality(DOMAIN gindex) -> DOMAIN gindex] :
        \A i, j \in DOMAIN v : (i # j) => (v[i] # v[j])}

\* Database::stats
stats ==
    [entry_count |-> metadata.entry_count,
     data_size |-> metadata.data_size,
     latest_height |-> metadata.latest_height,
     latest_hash |-> metadata.latest_hash,
     genesis_hash |-> metadata.genesis_hash]

\* a call of a method that takes &self: nothing of the instance and no file changes
read_call(name, hash, height, result) ==
    /\ db_open
    /\ call' = [name |-> name, hash |-> hash, height |-> height]
    /\ ret' = result
    /\ UNCHANGED <<fs, unsynced, db_open, config, hash_index, height_index, metadata,
                   history, session_from>>

get_call == \E hash \in Hashes : read_call("get", hash, 0, get(hash))

get_by_height_call ==
    \E height \in Heights : read_call("get_by_height", ZERO_HASH, height, get_by_height(height))

get_hash_by_height_call ==
    \E height \in Heights :
        read_call("get_hash_by_height", ZERO_HASH, height, get_hash_by_height(height))

contains_call == \E hash \in Hashes : read_call("contains", hash, 0, contains(hash))

contains_height_call ==
    \E height \in Heights :
        read_call("contains_height", ZERO_HASH, height, contains_height(height))

latest_height_call == read_call("latest_height", ZERO_HASH, 0, latest_height)

latest_hash_call == read_call("latest_hash", ZERO_HASH, 0, latest_hash)

genesis_hash_call == read_call("genesis_hash", ZERO_HASH, 0, genesis_hash)

entry_count_call == read_call("entry_count", ZERO_HASH, 0, entry_count)

stats_call == read_call("stats", ZERO_HASH, 0, stats)

\* Database::iter_heights, the iterator given by the heights it yields
iter_heights_call ==
    \E v \in keys_collected(height_index) : read_call("iter_heights", ZERO_HASH, 0, sort(v))

NextRead ==
    \/ open
    \/ get_call
    \/ get_by_height_call
    \/ get_hash_by_height_call
    \/ contains_call
    \/ contains_height_call
    \/ latest_height_call
    \/ latest_hash_call
    \/ genesis_hash_call
    \/ entry_count_call
    \/ stats_call
    \/ iter_heights_call

\* the base directory handed to open: index logs of whole records in any
\* combination, a data log of one byte (it holds the payload of some of the
\* entries and ends before the payload of others), the default aggregate
InitRead ==
    /\ \E ilog \in {l \in IndexLogs : Len(l) % INDEX_ENTRY_SIZE = 0},
          hlog \in {l \in HeightLogs : Len(l) % HEIGHT_ENTRY_SIZE = 0} :
          fs = [f \in FileNames |->
                   IF f = IDX THEN ilog
                   ELSE IF f = HGT THEN hlog
                   ELSE IF f = META THEN Metadata_to_bytes(Metadata_default)
                   ELSE <<65>>]
    /\ unsynced = {}
    /\ db_open = FALSE
    /\ config = NoConfig
    /\ hash_index = EmptyMap
    /\ height_index = EmptyMap
    /\ metadata = Metadata_default
    /\ call = NoArgs
    /\ ret = "Ok"
    /\ history = <<>>
    /\ session_from = 0

SpecRead == InitRead /\ [][NextRead]_vars

(* ------------------------------------------------------------------ *)
(* sync, statement by statement                                       *)
(* ------------------------------------------------------------------ *)

\* In SpecSync a sync call takes five steps, one per statement that acts on
\* a file. Until it returns, ret holds the statement it has completed.
sync_running == call.name = "sync" /\ ret # "Ok"

\* meta_file.seek(SeekFrom::Start(0)); meta_file.write_all(..)
sync_write_metadata ==
    /\ db_open
    /\ ~sync_running
    /\ fs' = sync_files(fs, metadata)
    /\ unsynced' = unsynced \cup {META}
    /\ call' = Call("sync")
    /\ ret' = "metadata written"
    /\ UNCHANGED <<db_open, config, hash_index, height_index, metadata,
                   history, session_from>>

\* one sync_all: the file is forced to storage, sync moves on
sync_all(after, file, done) ==
    /\ call.name = "sync"
    /\ ret = after
    /\ unsynced' = unsynced \ {file}
    /\ ret' = done
    /\ UNCHANGED <<fs, db_open, config, hash_index, height_index, metadata,
                   call, history, session_from>>

\* data_file.sync_all()
sync_data_file == sync_all("metadata written", DAT, "data_file synced")

\* index_file.sync_all()
sync_index_file == sync_all("data_file synced", IDX, "index_file synced")

\* height_file.sync_all()
sync_height_file == sync_all("index_file synced", HGT, "height_file synced")

\* meta_file.sync_all(); Ok(())
sync_meta_file == sync_all("height_file synced", META, "Ok")

\* the instance is borrowed mutably by a running sync: no put meanwhile
NextSync ==
    \/ create
    \/ sync_write_metadata
    \/ sync_data_file
    \/ sync_index_file
    \/ sync_height_file
    \/ sync_meta_file
    \/ /\ ~sync_running
       /\ \E hash \in Hashes, height \in Heights, data \in Payloads :
             put(hash, height, data)

SpecSync == Init /\ [][NextSync]_vars

(* ------------------------------------------------------------------ *)
(* put, statement by statement, with failures and crashes             *)
(* ------------------------------------------------------------------ *)

\* In SpecPut a put that stores a new hash takes one step per effect. Until
\* it returns, ret holds the effect it has completed and call holds, beside
\* the arguments, the payload and the offset the data log ended at.
put_running == call.name = "put" /\ ret \notin {"Ok", "HeightTooLarge", "Io"}

\* the hashes and heights put is called with in SpecPut: the zero hash and
\* another one, a height that fits and one that does not
StepHashes == {ZERO_HASH, RepeatHash(1)}

StepHeights == {0, MAX_REASONABLE_HEIGHT + 1}

\* the height check, the deduplication check, then
\* data_file.seek(SeekFrom::End(0)) and data_file.write_all(data)
put_write_data(hash, height, data) ==
    /\ db_open
    /\ ~put_running
    /\ IF put_outcome(hash_index, hash, height) = "HeightTooLarge"
         THEN /\ ret' = "HeightTooLarge"
              /\ call' = [name |-> "put", hash |-> hash, height |-> height]
              /\ UNCHANGED fs
         ELSE IF put_outcome(hash_index, hash, height) = "duplicate"
           THEN /\ ret' = "Ok"
                /\ call' = [name |-> "put", hash |-> hash, height |-> height]
                /\ UNCHANGED fs
           ELSE /\ Len(fs[IDX]) < MaxEntries * INDEX_ENTRY_SIZE
                /\ Len(fs[DAT]) <= MaxEntries
                /\ fs' = [fs EXCEPT ![DAT] = @ \o data]
                /\ call' = [name |-> "put", hash |-> hash, height |-> height,
                            data |-> data, offset |-> Len(fs[DAT])]
                /\ ret' = "data written"
    /\ unsynced' = IF fs' = fs THEN unsynced ELSE unsynced \cup {DAT}
    /\ UNCHANGED <<db_open, config, hash_index, height_index, metadata,
                   history, session_from>>

\* put_running_entry taking the offset when the index record is written,
\* after the data append
put_running_entry_after_append ==
    put_entry(call.hash, call.height, call.data, Len(fs[DAT]))

\* the IndexEntry of the running put
put_running_entry == put_entry(call.hash, call.height, call.data, call.offset)

\* index_file.seek(SeekFrom::End(0)); index_file.write_all(&entry.to_bytes())
put_write_index ==
    /\ call.name = "put"
    /\ ret = "data written"
    /\ fs' = [fs EXCEPT ![IDX] = @ \o IndexEntry_to_bytes(put_running_entry)]
    /\ unsynced' = unsynced \cup {IDX}
    /\ ret' = "index written"
    /\ UNCHANGED <<db_open, config, hash_index, height_index, metadata,
                   call, history, session_from>>

\* height_file.seek(SeekFrom::End(0)); height_file.write_all(..)
put_write_height ==
    /\ call.name = "put"
    /\ ret = "index written"
    /\ fs' = [fs EXCEPT ![HGT] = @ \o HeightEntry_to_bytes(
                                         [height |-> call.height, hash |-> call.hash])]
    /\ unsynced' = unsynced \cup {HGT}
    /\ ret' = "height written"
    /\ UNCHANGED <<db_open, config, hash_index, height_index, metadata,
                   call, history, session_from>>

\* hash_index.insert(..); height_index.insert(..)
put_update_indices ==
    /\ call.name = "put"
    /\ ret = "height written"
    /\ hash_index' = MapInsert(hash_index, call.hash, put_running_entry)
    /\ height_index' = MapInsert(height_index, call.height, call.hash)
    /\ ret' = "indices updated"
    /\ UNCHANGED <<fs, unsynced, db_open, config, metadata,
                   call, history, session_from>>

\* the four updates of self.metadata
put_update_metadata ==
    /\ call.name = "put"
    /\ ret = "indices updated"
    /\ metadata' = put_metadata(metadata, call.hash, call.height, call.data)
    /\ ret' = "metadata updated"
    /\ UNCHANGED <<fs, unsynced, db_open, config, hash_index, height_index,
                   call, history, session_from>>

\* if self.config.sync_on_write { self.sync()?; } Ok(())
put_return ==
    /\ call.name = "put"
    /\ ret = "metadata updated"
    /\ IF config.sync_on_write
         THEN /\ fs' = sync_files(fs, metadata)
              /\ unsynced' = {}
         ELSE UNCHANGED <<fs, unsynced>>
    /\ history' = Append(history,
           [hash |-> call.hash, height |-> call.height, data |-> call.data])
    /\ ret' = "Ok"
    /\ UNCHANGED <<db_open, config, hash_index, height_index, metadata,
                   call, session_from>>

\* the write of the index record or of the height record returns an I/O
\* error without having written: put returns it through `?`, the instance
\* lives on with what the earlier statements did
put_io_error ==
    /\ call.name = "put"
    /\ ret \in {"data written", "index written"}
    /\ ret' = "Io"
    /\ UNCHANGED <<fs, unsynced, db_open, config, hash_index, height_index, metadata,
                   call, history, session_from>>

\* the process dies: the instance is gone, the files hold what was written.
\* call keeps the arguments of the put it interrupted, ret how far it got
crash ==
    /\ db_open
    /\ db_open' = FALSE
    /\ config' = NoConfig
    /\ hash_index' = EmptyMap
    /\ height_index' = EmptyMap
    /\ metadata' = Metadata_default
    /\ call' = [call EXCEPT !.name = "crash"]
    /\ UNCHANGED <<fs, unsynced, ret, history, session_from>>

NextPut ==
    \/ create
    \/ open
    \/ \E hash \in StepHashes, height \in StepHeights, data \in Payloads :
          put_write_data(hash, height, data)
    \/ put_write_index
    \/ put_write_height
    \/ put_update_indices
    \/ put_update_metadata
    \/ put_return
    \/ put_io_error
    \/ crash

SpecPut == Init /\ [][NextPut]_vars

\* data_file.seek or data_file.write_all returns an I/O error: put returns
\* it through `?`; write_all may have written any part of the payload but the
\* whole of it
put_data_error(hash, height, data) ==
    /\ db_open
    /\ ~put_running
    /\ put_outcome(hash_index, hash, height) = "store"
    /\ Len(fs[IDX]) < MaxEntries * INDEX_ENTRY_SIZE
    /\ Len(fs[DAT]) <= MaxEntries
    /\ \E n \in 0..(Len(data) - 1) :
          /\ fs' = [fs EXCEPT ![DAT] = @ \o SubSeq(data, 1, n)]
          /\ unsynced' = IF n = 0 THEN unsynced ELSE unsynced \cup {DAT}
    /\ call' = [name |-> "put", hash |-> hash, height |-> height,
                data |-> data, offset |-> Len(fs[DAT])]
    /\ ret' = "Io"
    /\ UNCHANGED <<db_open, config, hash_index, height_index, metadata,
                   history, session_from>>

\* self.sync()? at the end of put returns an I/O error: from the write of
\* the metadata record (nothing written) or from one of the sync_all calls
\* (the record written)
put_sync_error ==
    /\ call.name = "put"
    /\ ret = "metadata updated"
    /\ config.sync_on_write
    /\ fs' \in {fs, sync_files(fs, metadata)}
    /\ unsynced' = IF fs' = fs THEN unsynced ELSE unsynced \cup {META}
    /\ ret' = "Io"
    /\ UNCHANGED <<db_open, config, hash_index, height_index, metadata,
                   call, history, session_from>>

\* put with an I/O error at any of its statements
NextFail ==
    \/ create
    \/ open
    \/ \E hash \in StepHashes, height \in StepHeights, data \in Payloads :
          put_write_data(hash, height, data)
    \/ \E hash \in StepHashes, height \in StepHeights, data \in Payloads :
          put_data_error(hash, height, data)
    \/ put_write_index
    \/ put_write_height
    \/ put_update_indices
    \/ put_update_metadata
    \/ put_return
    \/ put_io_error
    \/ put_sync_error
    \/ crash

SpecFail == Init /\ [][NextFail]_vars

(* ------------------------------------------------------------------ *)
(* create, statement by statement, with failures and crashes          *)
(* ------------------------------------------------------------------ *)

\* In SpecCreate a create call takes one step per file it opens, one for the
\* write of the default metadata record and one for its return. Until it
\* returns, ret holds the statement it has completed and config the
\* configuration it was given.
create_running ==
    call.name = "create"
       /\ ret \in {"index_file opened", "data_file opened", "height_file opened",
                   "meta_file opened", "metadata written"}

\* OpenOptions::new().read(true).write(true).create(true).open(path): the
\* file is made empty when it is absent and kept as it is otherwise
create_opened(files, f) ==
    IF f \in DOMAIN files THEN files
    ELSE [g \in DOMAIN files \cup {f} |-> IF g = f THEN <<>> ELSE files[g]]

\* one statement of create that opens a file
create_open(after, f, done) ==
    /\ call.name = "create"
    /\ ret = after
    /\ fs' = create_opened(fs, f)
    /\ ret' = done
    /\ UNCHANGED <<unsynced, db_open, config, hash_index, height_index, metadata,
                   call, history, session_from>>

\* the existence check, then the open of the hash-index log
create_index_file ==
    /\ ~db_open
    /\ ~create_running
    /\ call' = Call("create")
    /\ IF IDX \in DOMAIN fs \/ DAT \in DOMAIN fs
         THEN /\ ret' = "AlreadyExists"
              /\ UNCHANGED <<fs, config>>
         ELSE /\ fs' = create_opened(fs, IDX)
              /\ \E cfg \in Configs : config' = cfg
              /\ ret' = "index_file opened"
    /\ UNCHANGED <<unsynced, db_open, hash_index, height_index, metadata,
                   history, session_from>>

create_data_file == create_open("index_file opened", DAT, "data_file opened")

create_height_file == create_open("data_file opened", HGT, "height_file opened")

create_meta_file == create_open("height_file opened", META, "meta_file opened")

\* meta_file.write_all(&metadata.to_bytes())
create_write_metadata ==
    /\ call.name = "create"
    /\ ret = "meta_file opened"
    /\ fs' = [fs EXCEPT ![META] = WriteAt(@, 0, Metadata_to_bytes(Metadata_default))]
    /\ unsynced' = unsynced \cup {META}
    /\ ret' = "metadata written"
    /\ UNCHANGED <<db_open, config, hash_index, height_index, metadata,
                   call, history, session_from>>

\* meta_file.sync_all() and Ok(Self { .. })
create_return ==
    /\ call.name = "create"
    /\ ret = "metadata written"
    /\ unsynced' = unsynced \ {META}
    /\ db_open' = TRUE
    /\ hash_index' = EmptyMap
    /\ height_index' = EmptyMap
    /\ metadata' = Metadata_default
    /\ session_from' = Len(history)
    /\ ret' = "Ok"
    /\ UNCHANGED <<fs, config, call, history>>

\* the next statement of create returns an I/O error, which create returns
\* through `?`: the files made so far stay
create_io_error ==
    /\ create_running
    /\ ret' = "Io"
    /\ config' = NoConfig
    /\ UNCHANGED <<fs, unsynced, db_open, hash_index, height_index, metadata,
                   call, history, session_from>>

\* the process dies during create: the files made so far stay, and a
\* write_all of the metadata record that was under way has written any part
\* of the record but the whole of it
create_crash ==
    /\ create_running
    /\ IF ret = "meta_file opened"
         THEN \E n \in 0..(METADATA_SIZE - 1) :
                 fs' = [fs EXCEPT ![META] =
                           WriteAt(@, 0, SubSeq(Metadata_to_bytes(Metadata_default), 1, n))]
         ELSE UNCHANGED fs
    /\ config' = NoConfig
    /\ call' = Call("crash")
    /\ UNCHANGED <<unsynced, db_open, hash_index, height_index, metadata,
                   ret, history, session_from>>

NextCreate ==
    \/ create_index_file
    \/ create_data_file
    \/ create_height_file
    \/ create_meta_file
    \/ create_write_metadata
    \/ create_return
    \/ create_io_error
    \/ create_crash
    \/ ~create_running /\ open_or_create
    \/ drop

SpecCreate == Init /\ [][NextCreate]_vars

(* ------------------------------------------------------------------ *)
(* The size field of an entry, for payloads of any length             *)
(* ------------------------------------------------------------------ *)

\* In SpecSize a payload is given by its length alone, a usize written as 8
\* little-endian bytes, so that lengths of 4 GiB and more can be drawn. Init
\* draws the length into call; the hash map holds the entry put builds for
\* it, the aggregate holds data_size as 8 bytes too, and ret holds the length
\* of the buffer get reads into. The files are not written.

\* u64 addition on numbers given by their little-endian bytes
RECURSIVE add_bytes(_, _, _)
add_bytes(a, b, carry) ==
    IF a = <<>> THEN <<>>
    ELSE <<(a[1] + b[1] + carry) % 256>>
            \o add_bytes(Tail(a), Tail(b), (a[1] + b[1] + carry) \div 256)

add_u64(a, b) == add_bytes(a, b, 0)

\* the aggregate of a new database, data_size given by its 8 bytes
Metadata_default_len == [Metadata_default EXCEPT !.data_size = to_le_bytes(0, 8)]

\* the metadata update of put for a payload of the length given:
\* data_size += data.len() as u64
put_metadata_len(meta, hash, height, len_bytes) ==
    LET counted == [meta EXCEPT !.entry_count = @ + 1,
                                !.data_size = add_u64(@, len_bytes)]
        latest == IF height > counted.latest_height
                    THEN [counted EXCEPT !.latest_height = height,
                                         !.latest_hash = hash]
                    ELSE counted
    IN IF height = 0 THEN [latest EXCEPT !.genesis_hash = hash] ELSE latest

\* payload lengths below 2^32 and from 2^32 (4 GiB) to 2^34
Lengths ==
    {<<b1, b2, 0, b4, b5, 0, 0, 0>> :
        b1 \in {0, 1, 255}, b2 \in {0, 1, 255}, b4 \in {0, 127}, b5 \in {0, 1, 2}}

InitSize ==
    /\ call \in {[name |-> "none", hash |-> RepeatHash(1), height |-> 0, len |-> l] :
                    l \in Lengths}
    /\ fs = [f \in FileNames |->
                IF f = META THEN Metadata_to_bytes(Metadata_default) ELSE <<>>]
    /\ unsynced = {}
    /\ db_open = TRUE
    /\ config = Config_default
    /\ hash_index = EmptyMap
    /\ height_index = EmptyMap
    /\ metadata = Metadata_default_len
    /\ ret = "Ok"
    /\ history = <<>>
    /\ session_from = 0

\* the entry of put for the payload length in call, inserted in the hash
\* map, and the update of the aggregate
put_entry_len_call ==
    /\ call.name = "none"
    /\ put_outcome(hash_index, call.hash, call.height) = "store"
    /\ hash_index' = MapInsert(hash_index, call.hash,
                          put_entry_len(call.hash, call.height, call.len, Len(fs[DAT])))
    /\ height_index' = MapInsert(height_index, call.height, call.hash)
    /\ metadata' = put_metadata_len(metadata, call.hash, call.height, call.len)
    /\ call' = [call EXCEPT !.name = "put"]
    /\ ret' = "Ok"
    /\ UNCHANGED <<fs, unsynced, db_open, config, history, session_from>>

\* the buffer of get: vec![0u8; entry.size as usize]
get_buffer_len_call ==
    /\ call.name = "put"
    /\ call.hash \in DOMAIN hash_index
    /\ ret' = [err |-> "Ok",
               len |-> as_usize(to_le_bytes(hash_index[call.hash].size, 4))]
    /\ call' = [call EXCEPT !.name = "get"]
    /\ UNCHANGED <<fs, unsynced, db_open, config, hash_index, height_index, metadata,
                   history, session_from>>

NextSize ==
    \/ put_entry_len_call
    \/ get_buffer_len_call

SpecSize == InitSize /\ [][NextSize]_vars

(* ------------------------------------------------------------------ *)
(* The record codec on its own                                        *)
(* ------------------------------------------------------------------ *)

\* the values handed to IndexEntry::to_bytes, the entry of
\* test_index_entry_roundtrip among them; 2147483647 is the largest integer
\* the model checker represents
IndexEntries ==
    [key    : Hashes,
     offset : {0, 12345, 2147483647},
     size   : {0, 1000},
     height : {0, 42, MAX_REASONABLE_HEIGHT},
     flags  : {0, 1}]

HeightEntries == [height : Heights, hash : Hashes]

\* the values handed to Metadata::to_bytes, the record of
\* test_metadata_roundtrip among them
MetadataValues ==
    [magic         : {MAGIC},
     version       : {VERSION, VERSION + 1},
     entry_count   : {0, 100},
     data_size     : {0, 50000},
     latest_height : {0, 42, MAX_REASONABLE_HEIGHT + 1},
     latest_hash   : {ZERO_HASH, RepeatHash(1)},
     genesis_hash  : {ZERO_HASH, RepeatHash(2)}]

\* one record in memory, in the field of Database that holds its type, and
\* four empty buffers, one per record file
InitCodec ==
    /\ \/ /\ metadata \in MetadataValues
          /\ hash_index = EmptyMap
          /\ height_index = EmptyMap
       \/ /\ metadata = Metadata_default
          /\ hash_index \in {MapInsert(EmptyMap, e.key, e) : e \in IndexEntries}
          /\ height_index = EmptyMap
       \/ /\ metadata = Metadata_default
          /\ hash_index = EmptyMap
          /\ height_index \in {MapInsert(EmptyMap, e.height, e.hash) : e \in HeightEntries}
    /\ fs = [f \in FileNames |-> <<>>]
    /\ unsynced = {}
    /\ db_open = FALSE
    /\ config = NoConfig
    /\ call = NoArgs
    /\ ret = "Ok"
    /\ history = <<>>
    /\ session_from = 0

\* the index entry in memory
TheIndexEntry == hash_index[CHOOSE k \in DOMAIN hash_index : TRUE]

\* the height entry in memory
TheHeightEntry ==
    LET x == CHOOSE k \in DOMAIN height_index : TRUE
    IN [height |-> x, hash |-> height_index[x]]

IndexEntry_to_bytes_call ==
    /\ hash_index # EmptyMap
    /\ fs' = [fs EXCEPT ![IDX] = IndexEntry_to_bytes(TheIndexEntry)]
    /\ call' = Call("IndexEntry::to_bytes")
    /\ UNCHANGED <<unsynced, db_open, config, hash_index, height_index, metadata,
                   ret, history, session_from>>

IndexEntry_from_bytes_call ==
    /\ Len(fs[IDX]) = INDEX_ENTRY_SIZE
    /\ ret' = IndexEntry_from_bytes(fs[IDX])
    /\ call' = Call("IndexEntry::from_bytes")
    /\ UNCHANGED <<fs, unsynced, db_open, config, hash_index, height_index, metadata,
                   history, session_from>>

HeightEntry_to_bytes_call ==
    /\ height_index # EmptyMap
    /\ fs' = [fs EXCEPT ![HGT] = HeightEntry_to_bytes(TheHeightEntry)]
    /\ call' = Call("HeightEntry::to_bytes")
    /\ UNCHANGED <<unsynced, db_open, config, hash_index, height_index, metadata,
                   ret, history, session_from>>

HeightEntry_from_bytes_call ==
    /\ Len(fs[HGT]) = HEIGHT_ENTRY_SIZE
    /\ ret' = HeightEntry_from_bytes(fs[HGT])
    /\ call' = Call("HeightEntry::from_bytes")
    /\ UNCHANGED <<fs, unsynced, db_open, config, hash_index, height_index, metadata,
                   history, session_from>>

Metadata_to_bytes_call ==
    /\ hash_index = EmptyMap
    /\ height_index = EmptyMap
    /\ fs' = [fs EXCEPT ![META] = Metadata_to_bytes(metadata)]
    /\ call' = Call("Metadata::to_bytes")
    /\ UNCHANGED <<unsynced, db_open, config, hash_index, height_index, metadata,
                   ret, history, session_from>>

Metadata_from_bytes_call ==
    /\ Len(fs[META]) = METADATA_SIZE
    /\ ret' = Metadata_from_bytes(fs[META])
    /\ call' = Call("Metadata::from_bytes")
    /\ UNCHANGED <<fs, unsynced, db_open, config, hash_index, height_index, metadata,
                   history, session_from>>

NextCodec ==
    \/ IndexEntry_to_bytes_call
    \/ IndexEntry_from_bytes_call
    \/ HeightEntry_to_bytes_call
    \/ HeightEntry_from_bytes_call
    \/ Metadata_to_bytes_call
    \/ Metadata_from_bytes_call

SpecCodec == InitCodec /\ [][NextCodec]_vars

(* ------------------------------------------------------------------ *)
(* Two runs of the same calls, side by side                           *)
(* ------------------------------------------------------------------ *)

\* In SpecPair every variable but call, history and session_from holds a
\* pair: its value in the first run and its value in the second. Each run
\* has its own base directory and its own instance; both receive the same
\* call with the same arguments.
Runs == {1, 2}

\* run i as one record
Run(i) ==
    [fs           |-> fs[i],
     unsynced     |-> unsynced[i],
     db_open      |-> db_open[i],
     config       |-> config[i],
     hash_index   |-> hash_index[i],
     height_index |-> height_index[i],
     metadata     |-> metadata[i],
     ret          |-> ret[i]]

\* Database::create on the directory of run r
run_create(r, cfg) ==
    IF IDX \in DOMAIN r.fs \/ DAT \in DOMAIN r.fs
      THEN [r EXCEPT !.ret = "AlreadyExists"]
      ELSE LET opened == [f \in FileNames |-> IF f \in DOMAIN r.fs THEN r.fs[f] ELSE <<>>]
           IN [fs           |-> [opened EXCEPT
                                    ![META] = WriteAt(@, 0, Metadata_to_bytes(Metadata_default))],
               unsynced     |-> r.unsynced \ {META},
               db_open      |-> TRUE,
               config       |-> cfg,
               hash_index   |-> EmptyMap,
               height_index |-> EmptyMap,
               metadata     |-> Metadata_default,
               ret          |-> "Ok"]

\* Database::put on the instance of run r
run_put(r, hash, height, data) ==
    IF put_outcome(r.hash_index, hash, height) = "HeightTooLarge"
      THEN [r EXCEPT !.ret = "HeightTooLarge"]
      ELSE IF put_outcome(r.hash_index, hash, height) = "duplicate"
        THEN [r EXCEPT !.ret = "Ok"]
        ELSE LET appended == put_files(r.fs, hash, height, data)
                 entry == put_entry(hash, height, data, Len(r.fs[DAT]))
                 meta == put_metadata(r.metadata, hash, height, data)
             IN [r EXCEPT
                    !.hash_index = MapInsert(@, hash, entry),
                    !.height_index = MapInsert(@, height, hash),
                    !.metadata = meta,
                    !.fs = IF r.config.sync_on_write
                             THEN sync_files(appended, meta) ELSE appended,
                    !.unsynced = IF r.config.sync_on_write
                                   THEN {} ELSE @ \cup {DAT, IDX, HGT},
                    !.ret = "Ok"]

\* Database::sync on the instance of run r
run_sync(r) ==
    [r EXCEPT !.fs = sync_files(@, r.metadata), !.unsynced = {}, !.ret = "Ok"]

\* RunConfig handing the second run the opposite sync-on-write flag
RunConfig_flipped(i, cfg) ==
    IF i = 2 THEN [sync_on_write |-> ~cfg.sync_on_write] ELSE cfg

\* the Config handed to create in run i: the same in both runs
RunConfig(i, cfg) == cfg

\* std::env::temp_dir().join(..) after remove_dir_all: two fresh directories
TwoFreshDirs == <<EmptyMap, EmptyMap>>

InitPair ==
    /\ fs = TwoFreshDirs
    /\ unsynced = <<{}, {}>>
    /\ db_open = <<FALSE, FALSE>>
    /\ config = <<NoConfig, NoConfig>>
    /\ hash_index = <<EmptyMap, EmptyMap>>
    /\ height_index = <<EmptyMap, EmptyMap>>
    /\ metadata = <<Metadata_default, Metadata_default>>
    /\ ret = <<"Ok", "Ok">>
    /\ call = NoArgs
    /\ history = <<>>
    /\ session_from = 0

\* both runs take the step: the variables become the pairs of the results
BothRuns(first, second) ==
    /\ fs' = <<first.fs, second.fs>>
    /\ unsynced' = <<first.unsynced, second.unsynced>>
    /\ db_open' = <<first.db_open, second.db_open>>
    /\ config' = <<first.config, second.config>>
    /\ hash_index' = <<first.hash_index, second.hash_index>>
    /\ height_index' = <<first.height_index, second.height_index>>
    /\ metadata' = <<first.metadata, second.metadata>>
    /\ ret' = <<first.ret, second.ret>>
    /\ UNCHANGED <<history, session_from>>

both_create ==
    /\ \A i \in Runs : ~db_open[i]
    /\ \E cfg \in Configs :
          BothRuns(run_create(Run(1), RunConfig(1, cfg)),
                   run_create(Run(2), RunConfig(2, cfg)))
    /\ call' = Call("create")

both_put(hash, height, data) ==
    /\ \A i \in Runs : db_open[i]
    /\ \A i \in Runs :
          put_outcome(hash_index[i], hash, height) = "store"
          => Len(fs[i][IDX]) < MaxEntries * INDEX_ENTRY_SIZE
    /\ BothRuns(run_put(Run(1), hash, height, data),
                run_put(Run(2), hash, height, data))
    /\ call' = [name |-> "put", hash |-> hash, height |-> height]

both_sync ==
    /\ \A i \in Runs : db_open[i]
    /\ BothRuns(run_sync(Run(1)), run_sync(Run(2)))
    /\ call' = Call("sync")

NextPair ==
    \/ both_create
    \/ both_sync
    \/ \E hash \in Hashes, height \in Heights, data \in Payloads :
          both_put(hash, height, data)

SpecPair == InitPair /\ [][NextPair]_vars

(* ------------------------------------------------------------------ *)
(* Claims                                                             *)
(* ------------------------------------------------------------------ *)

\* the puts that stored a record through the live instance
SessionPuts == {history[i] : i \in (session_from + 1)..Len(history)}

Ok(data) == [err |-> "Ok", data |-> data]

\* C1: every put that stored a new hash in this session is read back
\* unchanged by get and reported by contains, however many other hashes
\* were put after it.
C1_PutGetIdentity ==
    db_open => \A p \in SessionPuts : get(p.hash) = Ok(p.data) /\ contains(p.hash)

\* a second hash was stored in the session after a first one
C1_Witness ==
    /\ db_open
    /\ call.name = "put"
    /\ ret = "Ok"
    /\ Len(history) >= session_from + 2
    /\ history[Len(history)].hash = call.hash
    /\ history[session_from + 1].hash # call.hash

\* C2: a put of a hash that is already stored, with any height up to
\* MAX_REASONABLE_HEIGHT and any payload, returns Ok and leaves entry_count
\* and the value get returns for that hash as they were: the payload of the
\* first put of the hash.
C2_DedupIdempotent ==
    [][\A hash \in Hashes, height \in Heights, data \in Payloads :
          (put(hash, height, data) /\ contains(hash) /\ height <= MAX_REASONABLE_HEIGHT)
          => /\ ret' = "Ok"
             /\ metadata'.entry_count = entry_count
             /\ get_in(fs', hash_index', hash) = get(hash)
             /\ \A p \in SessionPuts :
                   p.hash = hash => get_in(fs', hash_index', hash) = Ok(p.data)]_vars

\* a put of a stored hash under another height returned Ok and the entry
\* kept the height of the first put
C2_Witness ==
    /\ db_open
    /\ call.name = "put"
    /\ ret = "Ok"
    /\ contains(call.hash)
    /\ hash_index[call.hash].height # call.height
    /\ \E p \in SessionPuts : p.hash = call.hash

\* C3: a put with a height above MAX_REASONABLE_HEIGHT fails with
\* HeightTooLarge and changes no file, neither map and no field of the
\* aggregate, whether or not the hash is already stored.
C3_HeightGuard ==
    [][\A hash \in Hashes, height \in Heights, data \in Payloads :
          (put(hash, height, data) /\ height > MAX_REASONABLE_HEIGHT)
          => /\ ret' = "HeightTooLarge"
             /\ UNCHANGED <<fs, unsynced, hash_index, height_index, metadata>>]_vars

\* a put of a stored hash was rejected for its height
C3_Witness ==
    /\ db_open
    /\ call.name = "put"
    /\ call.height > MAX_REASONABLE_HEIGHT
    /\ ret = "HeightTooLarge"
    /\ contains(call.hash)

\* C4: after puts followed by a successful sync, dropping the instance and
\* opening the directory again gives the same entry_count, the same
\* latest_height and, for every height written, the same get_by_height
\* result. drop leaves the files as they are and open loads recover(fs), so
\* the reopened instance is recover of the files of the synced state.
C4_ReopenFidelity ==
    (db_open /\ call.name = "sync" /\ ret = "Ok")
    => LET again == recover(fs)
       IN /\ again.metadata.err = "Ok"
          /\ again.metadata.meta.entry_count = entry_count
          /\ again.metadata.meta.latest_height = latest_height
          /\ \A height \in DOMAIN height_index :
                get_by_height_in(fs, again.hash_index, again.height_index, height)
                    = get_by_height(height)

\* C5: once two distinct hashes were stored one after the other at the same
\* height, get_by_height of that height returns the second payload, in the
\* session of the puts and in every instance opened later, and get still
\* returns each hash's own payload.
C5_HeightOverwrite ==
    LET n == Len(history)
    IN (db_open /\ n >= 2 /\ history[n - 1].hash # history[n].hash
                /\ history[n - 1].height = history[n].height)
       => /\ get_by_height(history[n].height) = Ok(history[n].data)
          /\ get(history[n - 1].hash) = Ok(history[n - 1].data)
          /\ get(history[n].hash) = Ok(history[n].data)

\* C6: the hash map never holds the all-zero hash.
C6_ZeroHashNeverStored == ~contains(ZERO_HASH)

\* C7: the hash-index log never holds two records with the same key.
C7_OneRecordPerKey ==
    (IDX \in DOMAIN fs)
    => LET count == Len(fs[IDX]) \div INDEX_ENTRY_SIZE
           key(i) == Slice(fs[IDX], (i - 1) * INDEX_ENTRY_SIZE,
                           (i - 1) * INDEX_ENTRY_SIZE + HASH_LEN)
       IN \A i, j \in 1..count : i # j => key(i) # key(j)

\* C8 as claimed: once some put at height 0 has stored a record, no later
\* put changes genesis_hash.
C8_GenesisAssignedOnce ==
    [][\A hash \in Hashes, height \in Heights, data \in Payloads :
          (put(hash, height, data) /\ \E i \in 1..Len(history) : history[i].height = 0)
          => metadata'.genesis_hash = genesis_hash]_vars

\* C8 as amended: a put sets genesis_hash to its hash exactly when it stores
\* a new hash at height 0, every such put and not only the first; any other
\* put leaves genesis_hash unchanged.
C8_GenesisFollowsHeightZeroPut ==
    [][\A hash \in Hashes, height \in Heights, data \in Payloads :
          put(hash, height, data)
          => metadata'.genesis_hash =
                IF ~contains(hash) /\ height = 0 THEN hash ELSE genesis_hash]_vars

\* a second hash was stored at height 0 and became the genesis hash
C8_Witness ==
    /\ db_open
    /\ call.name = "put"
    /\ call.height = 0
    /\ Len(history) >= 2
    /\ history[Len(history)].hash = call.hash
    /\ genesis_hash = call.hash
    /\ \E i \in 1..(Len(history) - 1) :
          history[i].height = 0 /\ history[i].hash # call.hash

\* C9: a put that stores a new hash sets latest_height and latest_hash to
\* its height and hash when the height is strictly greater than
\* latest_height and leaves both unchanged otherwise; while every record the
\* database has stored is at height 0, latest_height is 0 and latest_hash is
\* the all-zero hash.
C9_LatestStrictlyGreater ==
    /\ [](( db_open /\ \A i \in 1..Len(history) : history[i].height = 0)
          => (latest_height = 0 /\ latest_hash = ZERO_HASH))
    /\ [][\A hash \in Hashes, height \in Heights, data \in Payloads :
             (put(hash, height, data) /\ ~contains(hash)
                                      /\ height <= MAX_REASONABLE_HEIGHT)
             => IF height > latest_height
                  THEN /\ metadata'.latest_height = height
                       /\ metadata'.latest_hash = hash
                  ELSE /\ metadata'.latest_height = latest_height
                       /\ metadata'.latest_hash = latest_hash]_vars

\* two hashes, the second not all-zero, are stored and both at height 0
C9_Witness ==
    /\ db_open
    /\ call.name = "put"
    /\ Len(history) >= 2
    /\ \A i \in 1..Len(history) : history[i].height = 0
    /\ history[Len(history)].hash = call.hash
    /\ call.hash # ZERO_HASH

\* C10: create returns AlreadyExists exactly when the data log or the
\* hash-index log exists, and then leaves every file as it was; otherwise it
\* returns an instance with empty maps over four existing files, the three
\* logs empty and the metadata file holding one default record, forced to
\* storage.
C10_CreateContract ==
    [][create
       => IF IDX \in DOMAIN fs \/ DAT \in DOMAIN fs
            THEN /\ ret' = "AlreadyExists"
                 /\ ~db_open'
                 /\ fs' = fs
            ELSE /\ ret' = "Ok"
                 /\ db_open'
                 /\ DOMAIN fs' = FileNames
                 /\ fs'[IDX] = <<>>
                 /\ fs'[DAT] = <<>>
                 /\ fs'[HGT] = <<>>
                 /\ Len(fs'[META]) = METADATA_SIZE
                 /\ load_metadata(fs'[META]) = [err |-> "Ok", meta |-> Metadata_default]
                 /\ META \notin unsynced'
                 /\ hash_index' = EmptyMap
                 /\ height_index' = EmptyMap]_vars

\* C11: open_or_create does what open does when the metadata file exists and
\* what create does otherwise; over the four files of a database it changes
\* no file, and the instance it returns holds the maps replayed from the
\* logs; over an empty directory it returns a new database.
C11_OpenOrCreateDispatch ==
    [][open_or_create
       => /\ IF META \in DOMAIN fs
               THEN \E cfg \in Configs : open_body(cfg)
               ELSE \E cfg \in Configs : create_body(cfg)
          /\ (DOMAIN fs = FileNames)
                => /\ fs' = fs
                   /\ ret' = "Ok" => /\ hash_index' = load_hash_index(fs[IDX])
                                     /\ height_index' = load_height_index(fs[HGT])
          /\ (fs = EmptyMap)
                => /\ ret' = "Ok"
                   /\ db_open'
                   /\ DOMAIN fs' = FileNames
                   /\ hash_index' = EmptyMap]_vars

\* open_or_create opened a database that holds two stored records
C11_Witness ==
    /\ db_open
    /\ call.name = "open_or_create"
    /\ ret = "Ok"
    /\ session_from = 2
    /\ Len(history) = 2
    /\ Len(fs[IDX]) = 2 * INDEX_ENTRY_SIZE
    /\ Cardinality(DOMAIN hash_index) = 2

C13_ReadPathErrors ==
    db_open
    => /\ \A h \in Hashes :
             /\ (get(h).err = "NotFound") <=> (h \notin DOMAIN hash_index)
             /\ contains(h) \in BOOLEAN
       /\ \A x \in Heights :
             /\ contains_height(x) \in BOOLEAN
             /\ (get_hash_by_height(x).err = "NotFound") <=> (x \notin DOMAIN height_index)
             /\ IF x \notin DOMAIN height_index
                  THEN get_by_height(x) = NotFound
                  ELSE /\ get_hash_by_height(x) = [err |-> "Ok", hash |-> height_index[x]]
                       /\ get_by_height(x) = get(get_hash_by_height(x).hash)

\* one height is mapped and read back through the hash it maps to, another
\* height and another hash are absent
C13_Witness ==
    /\ db_open
    /\ \E x \in Heights :
          /\ contains_height(x)
          /\ get_by_height(x).err = "Ok"
          /\ get_by_height(x) = get(height_index[x])
    /\ \E x \in Heights : ~contains_height(x) /\ get_by_height(x) = NotFound
    /\ \E h \in Hashes : ~contains(h) /\ get(h) = NotFound

\* C14: for every put that stored a new hash h with payload d at height x
\* through the live instance, as long as no later put has stored another
\* new hash at x: contains_height(x) is true, get_hash_by_height(x) is h and
\* get_by_height(x) is d. A hash that no put has stored is not contained.
C14_HeightLookupAfterPut ==
    db_open
    => /\ \A i \in (session_from + 1)..Len(history) :
             (\A j \in (i + 1)..Len(history) : history[j].height # history[i].height)
             => /\ contains_height(history[i].height)
                /\ get_hash_by_height(history[i].height)
                      = [err |-> "Ok", hash |-> history[i].hash]
                /\ get_by_height(history[i].height) = Ok(history[i].data)
       /\ \A h \in Hashes :
             contains(h) => \E i \in 1..Len(history) : history[i].hash = h

\* two hashes were stored in the session, the second at the height of the
\* first: the height now maps to the second, and a third hash is absent
C14_Witness ==
    /\ db_open
    /\ Len(history) = session_from + 2
    /\ history[Len(history)].height = history[Len(history) - 1].height
    /\ get_hash_by_height(history[Len(history)].height).hash = history[Len(history)].hash
    /\ get_by_height(history[Len(history)].height) = Ok(history[Len(history)].data)
    /\ \E h \in Hashes : ~contains(h)

\* the byte of a buffer at a 0-based offset
ByteAt(bytes, pos) == bytes[pos + 1]

\* C15: the encoding of an Index Entry is 56 bytes, of a Height Entry 40
\* bytes and of a Metadata record 96 bytes, each integer with its low byte at
\* the field's offset and the next byte after it; decoding the encoding of
\* an Index Entry or a Height Entry returns the entry, field by field, and
\* decoding the encoding of a Metadata record with the engine's magic and a
\* latest height <= MAX_REASONABLE_HEIGHT returns Ok with the record.
C15_CodecRoundTrip ==
    /\ (call.name \in {"IndexEntry::to_bytes", "IndexEntry::from_bytes"})
          => /\ Len(fs[IDX]) = 56
             /\ ByteAt(fs[IDX], 32) = TheIndexEntry.offset % 256
             /\ ByteAt(fs[IDX], 33) = (TheIndexEntry.offset \div 256) % 256
             /\ ByteAt(fs[IDX], 40) = TheIndexEntry.size % 256
             /\ ByteAt(fs[IDX], 41) = (TheIndexEntry.size \div 256) % 256
             /\ ByteAt(fs[IDX], 44) = TheIndexEntry.height % 256
             /\ ByteAt(fs[IDX], 52) = TheIndexEntry.flags % 256
    /\ (call.name = "IndexEntry::from_bytes")
          => /\ ret.key = TheIndexEntry.key
             /\ ret.offset = TheIndexEntry.offset
             /\ ret.size = TheIndexEntry.size
             /\ ret.height = TheIndexEntry.height
             /\ ret.flags = TheIndexEntry.flags
    /\ (call.name \in {"HeightEntry::to_bytes", "HeightEntry::from_bytes"})
          => /\ Len(fs[HGT]) = 40
             /\ ByteAt(fs[HGT], 0) = TheHeightEntry.height % 256
             /\ ByteAt(fs[HGT], 1) = (TheHeightEntry.height \div 256) % 256
    /\ (call.name = "HeightEntry::from_bytes")
          => /\ ret.height = TheHeightEntry.height
             /\ ret.hash = TheHeightEntry.hash
    /\ (call.name \in {"Metadata::to_bytes", "Metadata::from_bytes"})
          => /\ Len(fs[META]) = 96
             /\ ByteAt(fs[META], 4) = metadata.version % 256
             /\ ByteAt(fs[META], 8) = metadata.entry_count % 256
             /\ ByteAt(fs[META], 16) = metadata.data_size % 256
             /\ ByteAt(fs[META], 17) = (metadata.data_size \div 256) % 256
             /\ ByteAt(fs[META], 24) = metadata.latest_height % 256
    /\ (call.name = "Metadata::from_bytes"
           /\ metadata.magic = MAGIC
           /\ metadata.latest_height <= MAX_REASONABLE_HEIGHT)
          => /\ ret.err = "Ok"
             /\ \A field \in DOMAIN metadata : ret.meta[field] = metadata[field]

\* the entry of test_index_entry_roundtrip was encoded and decoded
C15_Witness ==
    /\ call.name = "IndexEntry::from_bytes"
    /\ hash_index # EmptyMap
    /\ TheIndexEntry.offset = 12345
    /\ TheIndexEntry.size = 1000
    /\ TheIndexEntry.height = 42
    /\ ret = TheIndexEntry

IsPrefix(a, b) == Len(a) <= Len(b) /\ SubSeq(b, 1, Len(a)) = a

\* the three logs
Logs == {DAT, IDX, HGT}

\* C17: no step of the program (put, sync, dropping the instance, open,
\* open_or_create, create) removes a log or changes a byte a log already
\* holds: the content of each log before the step is a prefix of its content
\* after it. A put that stores a new hash grows the data log by the length
\* of the payload, the hash-index log by 56 bytes and the height-index log
\* by 40 bytes; every other step leaves the three logs as they are, so the
\* metadata file is the only file whose bytes are ever overwritten.
C17_AppendOnlyLogs ==
    /\ [][\A f \in Logs \cap DOMAIN fs :
             f \in DOMAIN fs' /\ IsPrefix(fs[f], fs'[f])]_vars
    /\ [][(call'.name = "put")
             => IF ~contains(call'.hash) /\ call'.height <= MAX_REASONABLE_HEIGHT
                  THEN /\ Len(history') = Len(history) + 1
                       /\ Len(fs'[DAT]) = Len(fs[DAT]) + Len(history'[Len(history')].data)
                       /\ Len(fs'[IDX]) = Len(fs[IDX]) + 56
                       /\ Len(fs'[HGT]) = Len(fs[HGT]) + 40
                  ELSE \A f \in Logs : fs'[f] = fs[f]]_vars
    /\ [][(call'.name \in {"sync", "drop", "open", "open_or_create"})
             => \A f \in Logs \cap DOMAIN fs : fs'[f] = fs[f]]_vars

\* after a close and reopen a second record was appended to the logs and
\* the metadata record was overwritten in place
C17_Witness ==
    /\ db_open
    /\ call.name = "put"
    /\ session_from = 1
    /\ Len(history) = 2
    /\ Len(fs[IDX]) = 2 * INDEX_ENTRY_SIZE
    /\ Len(fs[HGT]) = 2 * HEIGHT_ENTRY_SIZE
    /\ Len(fs[DAT]) = Len(history[1].data) + Len(history[2].data)
    /\ Len(fs[META]) = METADATA_SIZE
    /\ load_metadata(fs[META]).meta.entry_count = 2

\* C18: the configuration built by Config::new has sync_on_write set, and
\* with_sync_on_write(false) clears it. With the flag set, every put that
\* stores a new hash returns with the metadata file holding exactly the
\* encoding of the aggregate in memory and nothing left unsynced. With the
\* flag cleared no put changes the metadata file: while the instance lives,
\* only a sync call changes it.
C18_SyncOnWrite ==
    /\ [](/\ Config_default.sync_on_write
          /\ ~with_sync_on_write(Config_default, FALSE).sync_on_write
          /\ {Config_default, with_sync_on_write(Config_default, FALSE)} = Configs)
    /\ [][(call'.name = "put" /\ config.sync_on_write
               /\ ~contains(call'.hash) /\ call'.height <= MAX_REASONABLE_HEIGHT)
             => /\ fs'[META] = Metadata_to_bytes(metadata')
                /\ unsynced' = {}]_vars
    /\ [][(db_open /\ ~config.sync_on_write)
             => /\ call'.name = "put" => fs'[META] = fs[META]
                /\ fs'[META] # fs[META] => call'.name = "sync"]_vars

\* a first record was stored by an instance without sync-on-write that was
\* dropped without a sync, and a second by an instance with sync-on-write:
\* the metadata file counts the second only and matches the aggregate
C18_Witness ==
    /\ db_open
    /\ config.sync_on_write
    /\ call.name = "put"
    /\ session_from = 1
    /\ Len(history) = 2
    /\ entry_count = 1
    /\ fs[META] = Metadata_to_bytes(metadata)

\* C19: the first statement of sync that acts on a file overwrites the
\* metadata file from offset 0 with the encoding of the aggregate in memory,
\* leaving it 96 bytes long; only after it the files are forced to storage,
\* one per step, in the order data log, hash-index log, height-index log,
\* metadata file, none of these steps changing a byte of a file. No step of
\* sync changes a map, the aggregate or a log, and a sync that follows a
\* sync with no put in between leaves every file as it was.
C19_SyncContract ==
    /\ [][(call'.name = "sync")
             => /\ UNCHANGED <<hash_index, height_index, metadata>>
                /\ \A f \in Logs : fs'[f] = fs[f]
                /\ Len(fs'[META]) = 96
                /\ fs'[META] = Metadata_to_bytes(metadata)
                /\ (ret' = "metadata written")
                      => /\ ~sync_running
                         /\ unsynced' = unsynced \cup {META}
                         /\ (call.name = "sync") => fs' = fs
                /\ (ret' = "data_file synced")
                      => /\ ret = "metadata written"
                         /\ unsynced' = unsynced \ {DAT}
                         /\ fs' = fs
                /\ (ret' = "index_file synced")
                      => /\ ret = "data_file synced"
                         /\ unsynced' = unsynced \ {IDX}
                         /\ fs' = fs
                /\ (ret' = "height_file synced")
                      => /\ ret = "index_file synced"
                         /\ unsynced' = unsynced \ {HGT}
                         /\ fs' = fs
                /\ (ret' = "Ok")
                      => /\ ret = "height_file synced"
                         /\ unsynced' = {}
                         /\ fs' = fs]_vars
    /\ [](sync_running
            => /\ META \in unsynced
               /\ (ret = "data_file synced") => (DAT \notin unsynced)
               /\ (ret = "index_file synced") => ({DAT, IDX} \cap unsynced = {})
               /\ (ret = "height_file synced") => (Logs \cap unsynced = {}))

\* a sync after two buffered puts has forced the data log and the
\* hash-index log to storage, not yet the height-index log and the metadata
\* file, which already holds the new record
C19_Witness ==
    /\ db_open
    /\ ~config.sync_on_write
    /\ call.name = "sync"
    /\ ret = "index_file synced"
    /\ unsynced = {HGT, META}
    /\ entry_count = 2
    /\ fs[META] = Metadata_to_bytes(metadata)

\* the i-th full chunk of a log
Chunk(bytes, size, i) == SubSeq(bytes, (i - 1) * size + 1, i * size)

\* the map from each key of the full 56-byte chunks of a log, the all-zero
\* key left out, to the last chunk that has the key
ReplayedHashMap(bytes) ==
    LET n == Len(bytes) \div 56
        record(i) == IndexEntry_from_bytes(Chunk(bytes, 56, i))
        last(k) == CHOOSE i \in 1..n :
                      /\ record(i).key = k
                      /\ \A j \in (i + 1)..n : record(j).key # k
    IN [k \in {record(i).key : i \in 1..n} \ {ZERO_HASH} |-> record(last(k))]

\* the map from each height of the full 40-byte chunks of a log whose hash
\* is not all-zero to the hash of the last such chunk
ReplayedHeightMap(bytes) ==
    LET n == Len(bytes) \div 40
        record(i) == HeightEntry_from_bytes(Chunk(bytes, 40, i))
        kept == {i \in 1..n : record(i).hash # ZERO_HASH}
        last(x) == CHOOSE i \in kept :
                      /\ record(i).height = x
                      /\ \A j \in kept : j > i => record(j).height # x
    IN [x \in {record(i).height : i \in kept} |-> record(last(x)).hash]

\* C20: whatever full records and whatever trailing partial chunk the two
\* index logs hold, open succeeds, changes no file, and returns as hash map
\* the last full 56-byte record of each key that is not all-zero and as
\* height map the hash of the last full 40-byte record of each height among
\* the records whose hash is not all-zero.
C20_RecoveryReplay ==
    [][(call'.name = "open")
         => /\ ret' = "Ok"
            /\ db_open'
            /\ fs' = fs
            /\ hash_index' = ReplayedHashMap(fs[IDX])
            /\ height_index' = ReplayedHeightMap(fs[HGT])]_vars

\* open read a hash-index log of two records with the same key and a cut
\* third one, and a height-index log whose last record for height 0 has the
\* all-zero hash: the second index record and the earlier height record won
C20_Witness ==
    /\ db_open
    /\ call.name = "open"
    /\ Len(fs[IDX]) = 2 * INDEX_ENTRY_SIZE + (INDEX_ENTRY_SIZE - 1)
    /\ DOMAIN hash_index = {RepeatHash(1)}
    /\ hash_index[RepeatHash(1)].offset = 1
    /\ Len(fs[HGT]) = 2 * HEIGHT_ENTRY_SIZE
    /\ Chunk(fs[HGT], 40, 2) = HeightEntry_to_bytes([height |-> 0, hash |-> ZERO_HASH])
    /\ height_index = MapInsert(EmptyMap, 0, RepeatHash(1))

\* C21: when the four files exist and the metadata record decodes, open
\* succeeds, changes no file, and returns as aggregate exactly the values of
\* the record, whatever the logs hold: it does so when entry_count is not
\* the number of keys of the rebuilt hash map, when the height map maps to a
\* hash that is not in the hash map, and when an entry's range ends beyond
\* the end of the data log.
C21_OpenTrustsFiles ==
    [][(call'.name = "open")
         => /\ ret' = "Ok"
            /\ db_open'
            /\ fs' = fs
            /\ Metadata_to_bytes(metadata') = fs[META]
            /\ metadata'.entry_count = from_le_bytes(SubSeq(fs[META], 9, 16))
            /\ metadata'.data_size = from_le_bytes(SubSeq(fs[META], 17, 24))
            /\ metadata'.latest_height = from_le_bytes(SubSeq(fs[META], 25, 32))
            /\ metadata'.latest_hash = SubSeq(fs[META], 33, 64)
            /\ metadata'.genesis_hash = SubSeq(fs[META], 65, 96)]_vars

\* open returned an instance whose entry_count is 100 over a hash map of
\* one key, whose height map maps height 0 to a hash the hash map lacks, and
\* whose only entry points beyond the end of the empty data log
C21_Witness ==
    /\ db_open
    /\ call.name = "open"
    /\ ret = "Ok"
    /\ entry_count = 100
    /\ Cardinality(DOMAIN hash_index) = 1
    /\ \E x \in DOMAIN height_index : ~contains(height_index[x])
    /\ \E h \in DOMAIN hash_index :
          /\ hash_index[h].offset + hash_index[h].size > Len(fs[DAT])
          /\ get(h).err = "Io"


\* the last n bytes of a byte sequence (all of it when it is shorter)
Tail_n(bytes, n) ==
    IF Len(bytes) < n THEN bytes ELSE SubSeq(bytes, Len(bytes) - n + 1, Len(bytes))

\* the entry a put with the arguments, payload and offset in call records
CallEntry == put_entry(call.hash, call.height, call.data, call.offset)

\* the payload of the put in call lies at the end of the data log
DataAppended ==
    /\ Len(fs[DAT]) = call.offset + Len(call.data)
    /\ Tail_n(fs[DAT], Len(call.data)) = call.data

\* the index record of the put in call is the last record of the hash-index log
IndexAppended ==
    Tail_n(fs[IDX], INDEX_ENTRY_SIZE) = IndexEntry_to_bytes(CallEntry)

\* the height record of the put in call is the last record of the height-index log
HeightAppended ==
    Tail_n(fs[HGT], HEIGHT_ENTRY_SIZE)
        = HeightEntry_to_bytes([height |-> call.height, hash |-> call.hash])

\* A put that stores a new hash performs its effects in this order: the payload is appended at the end of the data log, then the
\* index record at the end of the hash-index log, then the height record at
\* the end of the height-index log, then the two maps are updated, then the
\* aggregate, and last the database is synced if it is configured to. Each
\* effect finds the earlier ones done and leaves the later ones undone.
C22_PutOrder ==
    [][(call'.name = "put")
         => /\ (fs'[DAT] # fs[DAT])
                  => /\ ~put_running
                     /\ call'.offset = Len(fs[DAT])
                     /\ fs' = [fs EXCEPT ![DAT] = @ \o call'.data]
                     /\ call'.hash \notin DOMAIN hash_index
                     /\ UNCHANGED <<hash_index, height_index, metadata>>
            /\ (fs'[IDX] # fs[IDX])
                  => /\ DataAppended
                     /\ fs' = [fs EXCEPT ![IDX] = @ \o IndexEntry_to_bytes(CallEntry)]
                     /\ UNCHANGED <<hash_index, height_index, metadata>>
            /\ (fs'[HGT] # fs[HGT])
                  => /\ DataAppended
                     /\ IndexAppended
                     /\ fs' = [fs EXCEPT ![HGT] = @ \o HeightEntry_to_bytes(
                                   [height |-> call.height, hash |-> call.hash])]
                     /\ UNCHANGED <<hash_index, height_index, metadata>>
            /\ (<<hash_index, height_index>>' # <<hash_index, height_index>>)
                  => /\ DataAppended
                     /\ IndexAppended
                     /\ HeightAppended
                     /\ hash_index' = MapInsert(hash_index, call.hash, CallEntry)
                     /\ height_index' = MapInsert(height_index, call.height, call.hash)
                     /\ UNCHANGED <<fs, unsynced, metadata>>
            /\ (metadata' # metadata)
                  => /\ call.hash \in DOMAIN hash_index
                     /\ hash_index[call.hash] = CallEntry
                     /\ height_index[call.height] = call.hash
                     /\ metadata' = put_metadata(metadata, call.hash, call.height, call.data)
                     /\ DAT \in unsynced
                     /\ UNCHANGED <<fs, unsynced, hash_index, height_index>>
            /\ (fs'[META] # fs[META] \/ (unsynced' = {} /\ unsynced # {}))
                  => /\ config.sync_on_write
                     /\ call.hash \in DOMAIN hash_index
                     /\ fs' = [fs EXCEPT ![META] = Metadata_to_bytes(metadata)]
                     /\ unsynced' = {}
                     /\ ret' = "Ok"
                     /\ UNCHANGED <<hash_index, height_index, metadata>>
            /\ (ret' = "Ok" /\ put_running)
                  => /\ ret = "metadata updated"
                     /\ config.sync_on_write => unsynced' = {}
                     /\ ~config.sync_on_write => UNCHANGED <<fs, unsynced>>]_vars

\* the put in call stopped after its data append and before its index append
StoppedBeforeIndex ==
    /\ call.name = "crash"
    /\ "data" \in DOMAIN call
    /\ \/ ret = "data written"
       \/ ret = "Io" /\ ~IndexAppended

LoggedKey(log, hash) ==
    \E i \in 0..((Len(log) \div INDEX_ENTRY_SIZE) - 1) :
        Slice(log, i * INDEX_ENTRY_SIZE, i * INDEX_ENTRY_SIZE + HASH_LEN) = hash

\* When a put stopped by a failure or a crash after its data append and
\* before its index append is followed by a reopen, the data log holds the
\* payload and no index entry refers to any of its bytes; the hash is neither
\* contained nor retrievable, unless the hash-index log already holds a
\* record with this hash (and the hash is not the zero hash): then the hash
\* is contained and its entry refers to bytes before the orphaned payload.
C22_OrphanUnlessLogged ==
    [][(StoppedBeforeIndex /\ call'.name = "open")
         => /\ ret' = "Ok"
            /\ Slice(fs'[DAT], call.offset, call.offset + Len(call.data)) = call.data
            /\ \A k \in DOMAIN hash_index' :
                  \/ hash_index'[k].offset + hash_index'[k].size <= call.offset
                  \/ hash_index'[k].offset >= call.offset + Len(call.data)
            /\ (call.hash \in DOMAIN hash_index')
                  <=> (LoggedKey(fs[IDX], call.hash) /\ call.hash # ZERO_HASH)
            /\ (call.hash \notin DOMAIN hash_index')
                  => get_in(fs', hash_index', call.hash) = NotFound]_vars

C23_DuplicatePutNoEffect ==
    [][(/\ call'.name = "put"
        /\ call'.hash \in DOMAIN hash_index
        /\ call'.height <= MAX_REASONABLE_HEIGHT)
         => /\ ret' = "Ok"
            /\ fs' = fs
            /\ unsynced' = unsynced
            /\ hash_index' = hash_index
            /\ height_index' = height_index
            /\ metadata' = metadata
            /\ db_open' /\ config' = config]_vars

\* a duplicate put at a height the height map has no entry for, on a
\* database configured to sync on write whose files hold unsynced bytes
C23_Witness ==
    /\ db_open
    /\ call.name = "put"
    /\ ret = "Ok"
    /\ call.hash \in DOMAIN hash_index
    /\ hash_index[call.hash].height # call.height
    /\ call.height \notin DOMAIN height_index
    /\ config.sync_on_write
    /\ unsynced # {}


\* C24: for every payload put accepts, whatever its length (put rejects no
\* payload for its length), the size field of the entry equals the byte
\* length of the payload, so that get reads a buffer of the payload's whole
\* length; this includes lengths that do not fit the 4-byte size field.
C24_SizeIsPayloadLength ==
    /\ (call.name \in {"put", "get"})
          => /\ call.hash \in DOMAIN hash_index
             /\ as_usize(to_le_bytes(hash_index[call.hash].size, 4)) = call.len
    /\ (call.name = "get") => (ret.err = "Ok" /\ ret.len = call.len)


\* the names call takes for the read-only operations
ReadOps ==
    {"get", "get_by_height", "get_hash_by_height", "contains", "contains_height",
     "latest_height", "latest_hash", "genesis_hash", "entry_count", "stats",
     "iter_heights"}

\* C25: the read-only operations (get, get_by_height, get_hash_by_height,
\* contains, contains_height, stats, the aggregate accessors, iter_heights)
\* leave the two maps, the aggregate and all four files unchanged; contains
\* and contains_height answer from the maps alone, whatever the data log
\* holds; iter_heights yields every key of the height map exactly once, in
\* ascending order.
C25_ReadOnlyOperations ==
    [][(call'.name \in ReadOps)
         => /\ fs' = fs
            /\ hash_index' = hash_index
            /\ height_index' = height_index
            /\ metadata' = metadata
            /\ unsynced' = unsynced
            /\ (call'.name = "contains")
                  => ret' = (call'.hash \in DOMAIN hash_index)
            /\ (call'.name = "contains_height")
                  => ret' = (call'.height \in DOMAIN height_index)
            /\ (call'.name = "stats")
                  => ret' = [entry_count |-> metadata.entry_count,
                             data_size |-> metadata.data_size,
                             latest_height |-> metadata.latest_height,
                             latest_hash |-> metadata.latest_hash,
                             genesis_hash |-> metadata.genesis_hash]
            /\ (call'.name = "iter_heights")
                  => /\ Len(ret') = Cardinality(DOMAIN height_index)
                     /\ {ret'[i] : i \in 1..Len(ret')} = DOMAIN height_index
                     /\ \A i \in 1..(Len(ret') - 1) : ret'[i] < ret'[i + 1]]_vars

\* iter_heights has yielded two heights, over a hash map with a key that
\* contains reports while the data log ends before its payload
C25_Witness ==
    /\ db_open
    /\ call.name = "iter_heights"
    /\ ret = <<0, MAX_REASONABLE_HEIGHT>>
    /\ \E hash \in Hashes : contains(hash) /\ get(hash).err = "Io"
    /\ \E hash \in Hashes : contains(hash) /\ get(hash).err = "Ok"


\* the sum of the size fields of the entries of a hash map, as a u64 given
\* by its bytes
RECURSIVE SizeSum(_, _)
SizeSum(hindex, keys) ==
    IF keys = {} THEN to_le_bytes(0, 8)
    ELSE LET k == CHOOSE x \in keys : TRUE
         IN add_u64(as_usize(to_le_bytes(hindex[k].size, 4)), SizeSum(hindex, keys \ {k}))

\* C26: in every state reached from create by puts (and syncs), entry_count
\* equals the number of keys of the hash map and data_size equals the sum of
\* the size fields of all entries, which is the number of payload bytes put
\* appended to the data log.
C26_AggregateMatchesMaps ==
    (call.name \in {"put", "get"})
       => /\ metadata.entry_count = Cardinality(DOMAIN hash_index)
          /\ metadata.data_size = SizeSum(hash_index, DOMAIN hash_index)
          /\ metadata.data_size = call.len


\* C27: after any sequence of create or open, put, sync and clean close and
\* reopen, every hash the height map maps a height x to is a key of the hash
\* map, and the entry of that key records the height x; hence whenever
\* contains_height(x) holds, get_by_height(x) does not return NotFound.
C27_HeightMapRefersToEntries ==
    db_open
       => \A x \in DOMAIN height_index :
             /\ height_index[x] \in DOMAIN hash_index
             /\ hash_index[height_index[x]].height = x
             /\ contains_height(x) => get_by_height(x).err # "NotFound"


\* C28: after any sequence of create or open, put, sync and clean close and
\* reopen, the range [offset, offset + size) of every entry lies within the
\* data log and the ranges of distinct entries do not overlap; the offset of
\* an entry is the length the data log had when its put began; a later put
\* changes no byte an earlier entry refers to, and no earlier entry.
C28_EntryRanges ==
    /\ [](db_open
            => /\ \A k \in DOMAIN hash_index :
                     hash_index[k].offset + hash_index[k].size <= Len(fs[DAT])
               /\ \A k, l \in DOMAIN hash_index :
                     (k # l)
                        => \/ hash_index[k].offset + hash_index[k].size
                                 <= hash_index[l].offset
                           \/ hash_index[l].offset + hash_index[l].size
                                 <= hash_index[k].offset)
    /\ [][(call'.name = "put")
            => /\ \A k \in DOMAIN hash_index :
                     /\ k \in DOMAIN hash_index'
                     /\ hash_index'[k] = hash_index[k]
                     /\ Slice(fs'[DAT], hash_index[k].offset,
                              hash_index[k].offset + hash_index[k].size)
                           = Slice(fs[DAT], hash_index[k].offset,
                                   hash_index[k].offset + hash_index[k].size)
               /\ (hash_index' # hash_index)
                     => /\ hash_index'[call'.hash].offset = Len(fs[DAT])
                        /\ Len(fs'[DAT])
                              = Len(fs[DAT]) + hash_index'[call'.hash].size]_vars

\* a reopened database with an entry replayed from the log and an entry put
\* after the reopen, whose range starts where the range of the first ends
C28_Witness ==
    /\ db_open
    /\ call.name = "put"
    /\ session_from = 1
    /\ Len(history) = 2
    /\ \E k, l \in DOMAIN hash_index :
          /\ k # l
          /\ hash_index[k].offset = 0
          /\ hash_index[k].size = 2
          /\ hash_index[l].offset = 2
          /\ hash_index[l].offset + hash_index[l].size = Len(fs[DAT])


\* the greatest height recorded by an entry of the hash map, 0 when it is empty
MaxEntryHeight ==
    IF hash_index = EmptyMap THEN 0
    ELSE CHOOSE x \in {hash_index[k].height : k \in DOMAIN hash_index} :
            \A k \in DOMAIN hash_index : hash_index[k].height <= x

C30_AppendsAligned ==
    [][(call'.name = "put" /\ fs'[IDX] # fs[IDX])
         => /\ Len(fs[IDX]) % INDEX_ENTRY_SIZE = 0
            /\ Len(fs[HGT]) % HEIGHT_ENTRY_SIZE = 0
            /\ Len(fs'[IDX]) % INDEX_ENTRY_SIZE = 0
            /\ Len(fs'[HGT]) % HEIGHT_ENTRY_SIZE = 0
            /\ Chunk(fs'[IDX], INDEX_ENTRY_SIZE, Len(fs'[IDX]) \div INDEX_ENTRY_SIZE)
                  = IndexEntry_to_bytes(hash_index'[call'.hash])
            /\ Chunk(fs'[HGT], HEIGHT_ENTRY_SIZE, Len(fs'[HGT]) \div HEIGHT_ENTRY_SIZE)
                  = HeightEntry_to_bytes([height |-> call'.height, hash |-> call'.hash])]_vars


\* C31: whenever put returns an error (HeightTooLarge, or an I/O failure at
\* the data append, at either index append or at the final sync of a
\* database configured to sync on write), the hash map, the height map and
\* the aggregate are as they were before the call: the returning step
\* changes none of them, and after an I/O failure, which only a put of a
\* hash that was not contained meets, the hash is still not contained.
C31_PutErrorAtomicity ==
    [][(call'.name = "put" /\ ret' \in {"HeightTooLarge", "Io"})
         => /\ hash_index' = hash_index
            /\ height_index' = height_index
            /\ metadata' = metadata
            /\ (ret' = "Io") => (call'.hash \notin DOMAIN hash_index')]_vars


\* the directory an interrupted create leaves: some of the four files but
\* not all of them, or all of them with a metadata record not fully written
InterruptedCreate ==
    /\ \/ call.name = "crash"
       \/ call.name = "create" /\ ret = "Io"
    /\ DOMAIN fs # {}
    /\ \/ DOMAIN fs # FileNames
       \/ Len(fs[META]) < METADATA_SIZE

\* C32: when create failed or the process crashed after create had made some
\* but not all of its four files, or before the default metadata record was
\* fully written, a later open_or_create on the same directory succeeds (it
\* opens the database or creates it) and fails neither with AlreadyExists nor
\* with Corruption.
C32_InterruptedCreateRecovers ==
    [][(InterruptedCreate /\ call'.name = "open_or_create")
         => /\ ret' = "Ok"
            /\ db_open']_vars

====
